---- MODULE Spec2Model ----
(***************************************************************************)
(* Run status sensors of dagster: the cursor-driven tick of                *)
(* RunStatusSensorDefinition (run_status_sensor_definition.py).            *)
(*                                                                         *)
(* The evaluation function _wrapped_fn is a generator.  One tick is        *)
(* modelled as wrapped_fn_start (cursor check, bootstrap or fetch)         *)
(* followed by one wrapped_fn_scan step per fetched event record; pc       *)
(* holds the position of every sensor's tick.  trace records, in order,    *)
(* what the current (or last) tick of a sensor did.                        *)
(***************************************************************************)
EXTENDS Integers, Sequences, FiniteSets, TLC

VARIABLES
    events,      \* the event log: events[i] is the record with storage_id i
    runs,        \* the run storage: run_id -> the set of run records found
    sensorDef,   \* sensor name -> its RunStatusSensorDefinition
    cursor,      \* sensor name -> context.cursor, the serialized cursor
    pc,          \* sensor name -> "idle" | "scanning" | "returned" | "raised"
    fetched,     \* sensor name -> storage ids fetched by the current tick
    batch,       \* sensor name -> storage ids the loop has not visited yet
    tickStart,   \* sensor name -> context.cursor when the tick began
    trace,       \* sensor name -> the effects of the current tick, in order
    evaluated,   \* sensor name -> storage ids handed to the user function
    boot,        \* sensor name -> <<>> or <<record id set by the bootstrap>>
    raised,      \* sensor name -> number of ticks that ended in an exception
    error,       \* sensor name -> class of the exception that ended the tick
    direct       \* sensor name -> the last direct invocation and its outcome

vars == <<events, runs, sensorDef, cursor, pc, fetched, batch, tickStart,
          trace, evaluated, boot, raised, error, direct>>

-----------------------------------------------------------------------------
(* Bounds of the model.                                                    *)

MaxEvents == 3        \* events appended to the log under Spec
MaxScopeEvents == 2   \* events appended to the log under SpecScope
MaxRaised == 1        \* ticks of one sensor that may end in an exception

(* Program constants.                                                      *)

BatchLimit == 5       \* limit=5 of the fetch after the cursor
NoEventId == -1       \* most_recent_event_id when no event record exists

-----------------------------------------------------------------------------
(* Values.                                                                 *)

Sensors == {"s1", "s2"}

SUCCESS == "SUCCESS"
FAILURE == "FAILURE"

\* PIPELINE_RUN_STATUS_TO_EVENT_TYPE[run_status]
PIPELINE_RUN_STATUS_TO_EVENT_TYPE(run_status) ==
    IF run_status = FAILURE THEN "PIPELINE_FAILURE" ELSE "PIPELINE_SUCCESS"

EventTypes == {"PIPELINE_SUCCESS", "PIPELINE_FAILURE"}

\* context.repository_name: the repository the sensor runs in.
ContextRepositoryName == "repo"

\* utc_datetime_from_timestamp with a slip: the timestamp is dropped.
utc_datetime_from_timestamp_Epoch(ts) == <<"utc", 0>>

\* utc_datetime_from_timestamp: a float of epoch seconds to a datetime.
utc_datetime_from_timestamp(ts) == <<"utc", ts>>

\* datetime.isoformat(): the ISO-8601 string of a datetime.
isoformat(dt) == <<"iso", dt[2]>>

\* pendulum.parse: the datetime of an ISO-8601 string.
pendulum_parse(s) == <<"utc", s[2]>>

\* pendulum.now("UTC"): the clock advances with the log.
pendulum_now == <<"utc", 100 + Len(events)>>

\* A run record of the run storage.
RunRecord(pipeline_name, has_origin, location_name, repository_name, ts) ==
    [pipeline_name |-> pipeline_name,
     has_origin |-> has_origin,
     location_name |-> location_name,
     repository_name |-> repository_name,
     update_timestamp |-> <<"utc", ts>>]

\* The runs of the model: two jobs of the sensor's repository, a job of
\* another repository in another location, a job of a repository of the same
\* name in another location, a run executed without origin, and a run id
\* with no record.
RunTable ==
    [run_id \in {"cur_a", "cur_b", "ext_a", "twin_a", "manual", "gone"} |->
        CASE run_id = "cur_a" -> {RunRecord("job_a", TRUE, "loc", "repo", 11)}
          [] run_id = "cur_b" -> {RunRecord("job_b", TRUE, "loc", "repo", 12)}
          [] run_id = "ext_a" -> {RunRecord("job_a", TRUE, "loc2", "repo2", 13)}
          [] run_id = "twin_a" -> {RunRecord("job_a", TRUE, "loc2", "repo", 14)}
          [] run_id = "manual" -> {RunRecord("job_a", FALSE, "", "", 15)}
          [] OTHER -> {}]

RunIds == DOMAIN RunTable

\* An event record of the log.  Its timestamp is the time it was stored.
EventRecord(event_type, run_id, ts) ==
    [event_type |-> event_type, run_id |-> run_id, timestamp |-> ts]

-----------------------------------------------------------------------------
(* Selectors and sensor definitions.                                       *)

JobDefinition(name) ==
    [sel |-> "JobDefinition", location_name |-> "", repository_name |-> "",
     job_name |-> name]

JobSelector(location_name, repository_name, job_name) ==
    [sel |-> "JobSelector", location_name |-> location_name,
     repository_name |-> repository_name, job_name |-> job_name]

RepositorySelector(location_name, repository_name) ==
    [sel |-> "RepositorySelector", location_name |-> location_name,
     repository_name |-> repository_name, job_name |-> ""]

CodeLocationSelector(location_name) ==
    [sel |-> "CodeLocationSelector", location_name |-> location_name,
     repository_name |-> "", job_name |-> ""]

\* to_repository_selector with a slip: the repository name is left empty.
to_repository_selector_Unnamed(job) ==
    RepositorySelector(job.location_name, "")

\* CodeLocationSelector.to_repository_selector()
to_repository_selector(job) ==
    RepositorySelector(job.location_name, "__repository__")

Contains(seq, x) == \E i \in 1..Len(seq) : seq[i] = x

IsRepositorySelector(x) == x.sel = "RepositorySelector"
IsJobSelector(x) == x.sel = "JobSelector"
IsCurrentRepoJob(x) == ~(IsJobSelector(x) \/ IsRepositorySelector(x))

\* RunStatusSensorDefinition.__init__: the coercion of the code location
\* selectors and the split of monitored_jobs.  fn_params is the number of
\* parameters of run_status_sensor_fn, the function the definition holds;
\* fn_kind and user_params tell whether that function is the user's own
\* ("fn") or the wrapper of run_failure_sensor around a user function of
\* user_params parameters.
RunStatusSensorDefinition(name, run_status, fn_params, jobs, monitor_all) ==
    LET monitored_jobs ==
            [i \in 1..Len(jobs) |->
                IF jobs[i].sel = "CodeLocationSelector"
                THEN to_repository_selector(jobs[i])
                ELSE jobs[i]]
    IN  [name |-> name,
         run_status |-> run_status,
         event_type |-> PIPELINE_RUN_STATUS_TO_EVENT_TYPE(run_status),
         fn_params |-> fn_params,
         fn_kind |-> "fn",
         user_params |-> fn_params,
         monitor_all_repositories |-> monitor_all,
         monitored_jobs |-> monitored_jobs,
         other_repos |-> SelectSeq(monitored_jobs, IsRepositorySelector),
         other_repo_jobs |-> SelectSeq(monitored_jobs, IsJobSelector),
         current_repo_jobs |-> SelectSeq(monitored_jobs, IsCurrentRepoJob)]

\* The definition error of the decorator is constructed at lines 804-807
\* and dropped: no raise statement precedes it.
InvalidDefinitionIsRaised == FALSE

\* run_status_sensor(...)(fn), the decorator: jobs is monitored_jobs, or
\* job_selection when monitored_jobs is empty.  exc is the exception raised.
run_status_sensor(name, run_status, fn_params, monitored, job_selection, all) ==
    LET jobs == IF Len(monitored) > 0 THEN monitored ELSE job_selection
    IN  IF Len(jobs) > 0 /\ all /\ InvalidDefinitionIsRaised
        THEN [exc |-> "DagsterInvalidDefinitionError",
              sensor |-> RunStatusSensorDefinition(name, run_status, fn_params,
                                                   <<>>, FALSE)]
        ELSE [exc |-> "",
              sensor |-> RunStatusSensorDefinition(name, run_status, fn_params,
                                                   jobs, all)]

\* run_failure_sensor(...)(fn), the decorator: run_status_sensor for the
\* FAILURE status around _run_failure_sensor(context), a function of one
\* parameter that calls fn(context.for_run_failure()).
run_failure_sensor(name, fn_params, monitored, job_selection, all) ==
    LET jobs == IF Len(monitored) > 0 THEN monitored ELSE job_selection
        made == run_status_sensor(name, FAILURE, 1, jobs, <<>>, all)
    IN  [made EXCEPT !.sensor.fn_kind = "_run_failure_sensor",
                     !.sensor.user_params = fn_params]

-----------------------------------------------------------------------------
(* The cursor and its serialized form.  A serialized value is the record   *)
(* of what its text holds: form is "none" for the None of a context that   *)
(* has no cursor, "malformed" for text that is not JSON, and "json" for a  *)
(* JSON object, whose __class__ entry is cls.                              *)

RunStatusSensorCursor(record_id, update_timestamp) ==
    [record_id |-> record_id, update_timestamp |-> update_timestamp]

NoTimestamp == <<"iso", 0>>

CursorNone ==
    [form |-> "none", cls |-> "", record_id |-> 0,
     update_timestamp |-> NoTimestamp]

CursorMalformed ==
    [form |-> "malformed", cls |-> "", record_id |-> 0,
     update_timestamp |-> NoTimestamp]

\* Serialized values of other kinds: a whitelisted tuple that is no cursor,
\* and a JSON object without __class__.
CursorOtherTuple ==
    [form |-> "json", cls |-> "SkipReason", record_id |-> 0,
     update_timestamp |-> NoTimestamp]

CursorPlainObject ==
    [form |-> "json", cls |-> "", record_id |-> 0,
     update_timestamp |-> NoTimestamp]

\* A cursor serialized under the legacy class name.
LegacyJson(record_id, update_timestamp) ==
    [form |-> "json", cls |-> "PipelineSensorCursor", record_id |-> record_id,
     update_timestamp |-> update_timestamp]

\* serialize_value of a RunStatusSensorCursor.
serialize_value(c) ==
    [form |-> "json", cls |-> "RunStatusSensorCursor",
     record_id |-> c.record_id, update_timestamp |-> c.update_timestamp]

\* SerdesTupleFallbacks with a slip: the legacy name is not registered.
SerdesTupleFallbacks_Missing == {}

\* register_serdes_tuple_fallbacks({"PipelineSensorCursor": ...})
SerdesTupleFallbacks == {"PipelineSensorCursor"}

\* deserialize_value(json_str, RunStatusSensorCursor): the object, or the
\* exception raised.
deserialize_value(json_str) ==
    IF json_str.form # "json"
    THEN [exc |-> "JSONDecodeError", obj |-> RunStatusSensorCursor(0, NoTimestamp)]
    ELSE IF json_str.cls = "RunStatusSensorCursor"
            \/ json_str.cls \in SerdesTupleFallbacks
    THEN [exc |-> "",
          obj |-> RunStatusSensorCursor(json_str.record_id,
                                        json_str.update_timestamp)]
    ELSE [exc |-> "DeserializationError",
          obj |-> RunStatusSensorCursor(0, NoTimestamp)]

\* is_valid with a slip: only the JSON syntax is checked.
is_valid_SyntaxOnly(json_str) == json_str.form = "json"

\* RunStatusSensorCursor.is_valid
is_valid(json_str) ==
    LET r == deserialize_value(json_str)
    IN  IF r.exc \in {"JSONDecodeError", "DeserializationError"}
        THEN FALSE
        ELSE TRUE

\* RunStatusSensorCursor.to_json
to_json(c) == serialize_value(c)

\* RunStatusSensorCursor.from_json
from_json(json_str) == deserialize_value(json_str).obj

-----------------------------------------------------------------------------
(* The instance: event log and run storage.                                *)

RECURSIVE InOrder(_, _, _)
\* The ids of a set in ascending or descending order, at most limit of them.
InOrder(ids, ascending, limit) ==
    IF ids = {} \/ limit = 0 THEN <<>>
    ELSE LET x == CHOOSE i \in ids :
                    \A j \in ids : IF ascending THEN i <= j ELSE i >= j
         IN  <<x>> \o InOrder(ids \ {x}, ascending, limit - 1)

\* RunShardedEventsCursor(id, run_updated_after)
RunShardedEventsCursor(id, run_updated_after) ==
    [id |-> id, run_updated_after |-> run_updated_after]

\* instance.get_event_records(EventRecordsFilter(after_cursor, event_type),
\* ascending, limit): the storage ids of the records returned.  after is
\* <<>> when the filter has no after_cursor and <<cursor>> when it has one.
get_event_records(after, event_type, ascending, limit) ==
    InOrder({i \in 1..Len(events) :
                /\ events[i].event_type = event_type
                /\ after # <<>> => i > after[1].id},
            ascending, limit)

\* instance.get_run_records(filters=RunsFilter(run_ids=[run_id]))
get_run_records(run_id) == runs[run_id]

-----------------------------------------------------------------------------
(* Outputs of a tick and the effects a tick records.                       *)

NoRun == ""
NoError == ""

RunRequest(key) ==
    [kind |-> "RunRequest", key |-> key, run_id |-> NoRun, error |-> NoError]

SkipReason(msg) ==
    [kind |-> "SkipReason", key |-> msg, run_id |-> NoRun, error |-> NoError]

PipelineRunReaction(run_id, err) ==
    [kind |-> "PipelineRunReaction", key |-> "", run_id |-> run_id,
     error |-> err]

NoOutput == [kind |-> "", key |-> "", run_id |-> NoRun, error |-> NoError]

(* What a call of the user function does.  ret is "none" when it returns   *)
(* None, "raise" when it raises, "single" when it returns one output,      *)
(* "list" when it returns a sequence of outputs, and "gen_raise" when it   *)
(* returns a generator that raises after the outputs.                      *)
FnResult(ret, outs) == [ret |-> ret, outs |-> outs]

NoResult == FnResult("", <<>>)

(* The context handed to the user function: its class and what it carries. *)
(* The instance is the one instance of the model.                          *)
RunStatusSensorContext(sensor_name, dagster_run, dagster_event) ==
    [cls |-> "RunStatusSensorContext", sensor_name |-> sensor_name,
     dagster_run |-> dagster_run, dagster_event |-> dagster_event]

\* The same context without the conversion of for_run_failure.
for_run_failure_Unconverted(context) == context

\* RunStatusSensorContext.for_run_failure
for_run_failure(context) ==
    [cls |-> "RunFailureSensorContext", sensor_name |-> context.sensor_name,
     dagster_run |-> context.dagster_run,
     dagster_event |-> context.dagster_event]

NoContext ==
    [cls |-> "", sensor_name |-> "", dagster_run |-> NoRun, dagster_event |-> 0]

FnResults ==
    {FnResult("none", <<>>),
     FnResult("raise", <<>>),
     FnResult("single", <<RunRequest("k1")>>),
     FnResult("list", <<>>),
     FnResult("list", <<RunRequest("k1"), RunRequest("k2")>>),
     FnResult("gen_raise", <<RunRequest("k1")>>)}

(* The effects of a tick: the visit of a fetched record, the call of the   *)
(* user function (with what the call did), context.update_cursor, and a    *)
(* yield of the generator.                                                 *)
Effect(op, id, ts, out, res) ==
    [op |-> op, id |-> id, ts |-> ts, out |-> out, res |-> res,
     ctx |-> NoContext]

Inspect(id) == Effect("inspect", id, NoTimestamp, NoOutput, NoResult)
Invoke(id, res) == Effect("invoke", id, NoTimestamp, NoOutput, res)
InvokeWith(id, res, ctx) == [Invoke(id, res) EXCEPT !.ctx = ctx]
UpdateCursor(c) ==
    Effect("update_cursor", c.record_id, c.update_timestamp, NoOutput, NoResult)
Yield(id, out) == Effect("yield", id, NoTimestamp, out, NoResult)

-----------------------------------------------------------------------------
(* The steps of _wrapped_fn.                                               *)

\* MonitorsAll with a slip: the flag is not consulted.
MonitorsAll_Ignored(sd) == FALSE

\* if monitor_all_repositories: job_match = True
MonitorsAll(sd) == sd.monitor_all_repositories

\* The run has an origin and belongs to the current repository.
InCurrentRepository(pipeline_run, repository_name) ==
    /\ pipeline_run.has_origin
    /\ pipeline_run.repository_name = repository_name

\* InMonitoredJobs with a slip: the job list is not consulted.
InMonitoredJobs_AnyJob(sd, pipeline_run) == TRUE

\* InMonitoredJobs with a slip: the test is on current_repo_jobs.
InMonitoredJobs_CurrentOnly(sd, pipeline_run) ==
    IF Len(sd.current_repo_jobs) > 0
    THEN \E i \in 1..Len(sd.current_repo_jobs) :
            sd.current_repo_jobs[i].job_name = pipeline_run.pipeline_name
    ELSE TRUE

\* if monitored_jobs: pipeline_name in the names of current_repo_jobs;
\* else: every job.
InMonitoredJobs(sd, pipeline_run) ==
    IF Len(sd.monitored_jobs) > 0
    THEN \E i \in 1..Len(sd.current_repo_jobs) :
            sd.current_repo_jobs[i].job_name = pipeline_run.pipeline_name
    ELSE TRUE

\* run_job_selector in other_repo_jobs, or run_repo_selector in other_repos
InOtherRepos(sd, pipeline_run) ==
    LET run_job_selector ==
            JobSelector(pipeline_run.location_name,
                        pipeline_run.repository_name,
                        pipeline_run.pipeline_name)
        run_repo_selector ==
            RepositorySelector(pipeline_run.location_name,
                               pipeline_run.repository_name)
    IN  \/ Contains(sd.other_repo_jobs, run_job_selector)
        \/ Contains(sd.other_repos, run_repo_selector)

\* The job match of one run: "match", "no_match", or "CheckError" when
\* check.not_none meets a run without external_pipeline_origin.
job_match(sd, pipeline_run, repository_name) ==
    IF MonitorsAll(sd) THEN "match"
    ELSE IF /\ InCurrentRepository(pipeline_run, repository_name)
            /\ InMonitoredJobs(sd, pipeline_run)
    THEN "match"
    ELSE IF ~pipeline_run.has_origin THEN "CheckError"
    ELSE IF InOtherRepos(sd, pipeline_run) THEN "match"
    ELSE "no_match"

\* BootstrapCursor with a slip: the bootstrap starts from the beginning of
\* the log instead of its end.
BootstrapCursor_FromStart(event_type) ==
    RunStatusSensorCursor(NoEventId, isoformat(pendulum_now))

\* The cursor of the bootstrap: the id of the most recent record of the
\* event type (or -1) and the current time.
BootstrapCursor(event_type) ==
    LET most_recent_event_records ==
            get_event_records(<<>>, event_type, FALSE, 1)
        most_recent_event_id ==
            IF Len(most_recent_event_records) = 1
            THEN most_recent_event_records[1]
            ELSE NoEventId
    IN  RunStatusSensorCursor(most_recent_event_id, isoformat(pendulum_now))

\* FetchAfterCursor with a slip: the records are fetched newest first.
FetchAfterCursor_Descending(record_id, update_timestamp, event_type) ==
    get_event_records(
        <<RunShardedEventsCursor(record_id, pendulum_parse(update_timestamp))>>,
        event_type, FALSE, BatchLimit)

\* FetchAfterCursor with a slip: the fetch has no limit.
FetchAfterCursor_Unlimited(record_id, update_timestamp, event_type) ==
    get_event_records(
        <<RunShardedEventsCursor(record_id, pendulum_parse(update_timestamp))>>,
        event_type, TRUE, Len(events))

\* FetchAfterCursor with a slip: the record of the cursor is fetched again.
FetchAfterCursor_Inclusive(record_id, update_timestamp, event_type) ==
    get_event_records(
        <<RunShardedEventsCursor(record_id - 1,
                                 pendulum_parse(update_timestamp))>>,
        event_type, TRUE, BatchLimit)

\* FetchAfterCursor with a slip: the records stored before the time of the
\* cursor are left out.
FetchAfterCursor_ByTime(record_id, update_timestamp, event_type) ==
    LET after == get_event_records(
                    <<RunShardedEventsCursor(record_id,
                                             pendulum_parse(update_timestamp))>>,
                    event_type, TRUE, Len(events))
        later == SelectSeq(after,
                           LAMBDA i : events[i].timestamp >
                                          pendulum_parse(update_timestamp)[2])
    IN  IF Len(later) > BatchLimit THEN SubSeq(later, 1, BatchLimit) ELSE later

\* The fetch of the records after the cursor, ascending, up to the limit.
FetchAfterCursor(record_id, update_timestamp, event_type) ==
    get_event_records(
        <<RunShardedEventsCursor(record_id, pendulum_parse(update_timestamp))>>,
        event_type, TRUE, BatchLimit)

\* VisitedCursor with a slip: the cursor stays one record behind.
VisitedCursor_Lagging(storage_id, update_timestamp) ==
    to_json(RunStatusSensorCursor(storage_id - 1, isoformat(update_timestamp)))

\* The value given to context.update_cursor for a visited record.
VisitedCursor(storage_id, update_timestamp) ==
    to_json(RunStatusSensorCursor(storage_id, isoformat(update_timestamp)))

\* user_code_error_boundary(RunStatusSensorExecutionError, ...): the
\* exception that leaves the boundary when user code raises.
user_code_error_boundary(raises) ==
    IF raises THEN "RunStatusSensorExecutionError" ELSE ""

\* ExceptClause with a slip: the except clause names another class.
ExceptClause_OtherClass(exc) == exc = "DagsterInvalidInvocationError"

\* except RunStatusSensorExecutionError: whether the tick handles exc.
ExceptClause(exc) == exc = "RunStatusSensorExecutionError"

\* serializable_error_info_from_exc_info(...original_exc_info)
serializable_error_info_from_exc_info == "SerializableErrorInfo"

\* Whether the body of the user function runs when run_status_sensor_fn is
\* called with nargs arguments: the call raises a TypeError when nargs is
\* not the number of parameters, and so does the call fn(context) of the
\* wrapper of run_failure_sensor around a user function of no parameter.
UserFnRuns(sd, nargs) ==
    /\ sd.fn_params = nargs
    /\ sd.fn_kind = "_run_failure_sensor" => sd.user_params = 1

\* The context the user function receives from a call of
\* run_status_sensor_fn(context).
ReceivedContext(sd, context) ==
    IF sd.fn_kind = "_run_failure_sensor"
    THEN for_run_failure(context)
    ELSE context

\* The call of run_status_sensor_fn with the context as its one argument.
CallSensorFn(sd, fn_result) ==
    IF UserFnRuns(sd, 1) THEN fn_result ELSE FnResult("raise", <<>>)

\* SensorReturnIsNotNone with a slip: the test is the truth value of the
\* return value (if sensor_return), so that an empty sequence counts as None.
SensorReturnIsNotNone_Truthy(r) ==
    /\ r.ret \in {"single", "list", "gen_raise"}
    /\ r.ret = "list" => r.outs # <<>>

\* if sensor_return is not None
SensorReturnIsNotNone(r) == r.ret \in {"single", "list", "gen_raise"}

\* YieldAll with a slip: only the first output of a sequence is yielded.
YieldAll_FirstOnly(id, outs) ==
    [i \in 1..(IF Len(outs) > 1 THEN 1 ELSE Len(outs)) |-> Yield(id, outs[i])]

\* yield sensor_return, or yield from sensor_return
YieldAll(id, outs) == [i \in 1..Len(outs) |-> Yield(id, outs[i])]

\* ReturnAfterOutputs with a slip: the return statement is missing.
ReturnAfterOutputs_Missing == FALSE

\* The return statement that follows the yield of the user's outputs.
ReturnAfterOutputs == TRUE

\* ReturnAfterReaction with a slip: the tick returns after the reaction.
ReturnAfterReaction_Stops == TRUE

\* No return statement follows the yield of the PipelineRunReaction: the
\* loop goes on to the next record.
ReturnAfterReaction == FALSE

\* UpdateThenYield with a slip: the outputs are emitted before the cursor
\* is moved.
UpdateThenYield_YieldFirst(update, yields) == yields \o <<update>>

\* context.update_cursor(...) followed by the yield statements: the cursor
\* of the context is moved to the record before its outputs are emitted.
UpdateThenYield(update, yields) == <<update>> \o yields

\* After the job match of the record storage_id: the loop body from the
\* try statement to its end.
AfterMatch(sd, storage_id, pipeline_run, run_id, fn_result) ==
    LET r == CallSensorFn(sd, fn_result)
        context == RunStatusSensorContext(sd.name, run_id, storage_id)
        called ==
            IF UserFnRuns(sd, 1)
            THEN <<InvokeWith(storage_id, r, ReceivedContext(sd, context))>>
            ELSE <<>>
        new_cursor == VisitedCursor(storage_id, pipeline_run.update_timestamp)
        not_none == SensorReturnIsNotNone(r)
        outputs ==
            IF not_none
            THEN UpdateThenYield(UpdateCursor(new_cursor),
                                 YieldAll(storage_id, r.outs))
            ELSE <<>>
        exc == user_code_error_boundary(r.ret \in {"raise", "gen_raise"})
        handled == exc # "" /\ ExceptClause(exc)
        serializable_error ==
            IF handled THEN serializable_error_info_from_exc_info ELSE NoError
    IN  IF exc # "" /\ ~handled
        THEN [cursor |-> IF not_none THEN new_cursor ELSE CursorNone,
              exc |-> exc, stop |-> TRUE, invoked |-> UserFnRuns(sd, 1),
              effs |-> called \o outputs]
        ELSE IF not_none /\ exc = "" /\ ReturnAfterOutputs
        THEN [cursor |-> new_cursor, exc |-> "", stop |-> TRUE,
              invoked |-> UserFnRuns(sd, 1), effs |-> called \o outputs]
        ELSE [cursor |-> new_cursor, exc |-> "", stop |-> ReturnAfterReaction,
              invoked |-> UserFnRuns(sd, 1),
              effs |-> called \o outputs
                       \o UpdateThenYield(
                              UpdateCursor(new_cursor),
                              <<Yield(storage_id,
                                      PipelineRunReaction(run_id,
                                                          serializable_error))>>)]

\* One pass of the loop body, for the record storage_id.  cursor is the
\* value given to context.update_cursor (CursorNone when it is not called),
\* exc the exception that leaves the generator, stop whether it returns.
LoopBody(s, storage_id, fn_result) ==
    LET sd == sensorDef[s]
        event_log_entry == events[storage_id]
        run_records == get_run_records(event_log_entry.run_id)
        visit == <<Inspect(storage_id)>>
    IN  IF Cardinality(run_records) # 1
        THEN LET approximate_update_timestamp ==
                     utc_datetime_from_timestamp(event_log_entry.timestamp)
                 c == VisitedCursor(storage_id, approximate_update_timestamp)
             IN  [cursor |-> c, exc |-> "", stop |-> FALSE, invoked |-> FALSE,
                  effs |-> visit \o <<UpdateCursor(c)>>]
        ELSE LET run_record == CHOOSE r \in run_records : TRUE
                 update_timestamp == run_record.update_timestamp
                 m == job_match(sd, run_record, ContextRepositoryName)
             IN  CASE m = "CheckError" ->
                        [cursor |-> CursorNone, exc |-> "CheckError",
                         stop |-> TRUE, invoked |-> FALSE, effs |-> visit]
                   [] m = "no_match" ->
                        LET c == VisitedCursor(storage_id, update_timestamp)
                        IN  [cursor |-> c, exc |-> "", stop |-> FALSE,
                             invoked |-> FALSE,
                             effs |-> visit \o <<UpdateCursor(c)>>]
                   [] OTHER ->
                        LET a == AfterMatch(sd, storage_id, run_record,
                                            event_log_entry.run_id, fn_result)
                        IN  [a EXCEPT !.effs = visit \o @]

-----------------------------------------------------------------------------
(* Direct invocation: RunStatusSensorDefinition.__call__.                  *)
(* args is the sequence of the positional arguments and kwargs the         *)
(* sequence of the <<name, value>> pairs of the keyword arguments.  A      *)
(* value is a context, NoContext for None, or an object of another type.   *)

\* The name of the first parameter of the function the definition holds.
ContextParamName == "context"

NotAContext ==
    [cls |-> "SensorEvaluationContext", sensor_name |-> "",
     dagster_run |-> NoRun, dagster_event |-> 0]

\* check.opt_inst_param(obj, name, RunStatusSensorContext): the exception
\* raised, "" for None and for an instance of the class or of a subclass.
opt_inst_param(obj) ==
    IF obj.cls \in {"", "RunStatusSensorContext", "RunFailureSensorContext"}
    THEN ""
    ELSE "ParameterCheckError"

\* NotContext with a slip: a context of None is let through.
NotContext_Unchecked(context) == FALSE

\* if not context
NotContext(context) == context.cls = ""

\* has_at_least_one_parameter(self._run_status_sensor_fn)
has_at_least_one_parameter(sd) == sd.fn_params >= 1

\* NoArguments with a slip: the missing argument is not detected.
NoArguments_Unchecked(args, kwargs) == FALSE

\* if len(args) + len(kwargs) == 0
NoArguments(args, kwargs) == Len(args) + Len(kwargs) = 0

\* MultipleArguments with a slip: only the positional arguments count.
MultipleArguments_PositionalOnly(args, kwargs) == Len(args) > 1

\* if len(args) + len(kwargs) > 1
MultipleArguments(args, kwargs) == Len(args) + Len(kwargs) > 1

\* kwargs[context_param_name], as <<value>>, or <<>> when the name is not
\* in kwargs.
KeywordValue(kwargs, name) ==
    LET at == {i \in 1..Len(kwargs) : kwargs[i][1] = name}
    IN  IF at = {} THEN <<>> ELSE <<kwargs[CHOOSE i \in at : TRUE][2]>>

\* The outcome of a direct invocation: the exception raised (or ""), the
\* number of times the body of the user function ran, what was returned
\* and the context the user function received.
Outcome(exc, calls, returned, received) ==
    [exc |-> exc, calls |-> calls, returned |-> returned,
     received |-> received]

\* DirectReturn with a slip: the direct invocation synthesizes a reaction
\* for a function that returns None, as a tick does.
DirectReturn_Synthesized(fn_result, context) ==
    IF fn_result.ret = "none"
    THEN FnResult("single",
                  <<PipelineRunReaction(context.dagster_run, NoError)>>)
    ELSE fn_result

\* return self._run_status_sensor_fn(...): what the function returned.
DirectReturn(fn_result, context) == fn_result

\* self._run_status_sensor_fn(context) or self._run_status_sensor_fn(): the
\* call with nargs arguments.  An exception of the function propagates.
DirectCall(sd, nargs, context, fn_result) ==
    IF ~UserFnRuns(sd, nargs)
    THEN Outcome("TypeError", 0, NoResult, NoContext)
    ELSE LET received == IF nargs = 0 THEN NoContext
                         ELSE ReceivedContext(sd, context)
         IN  IF fn_result.ret = "raise"
             THEN Outcome("UserError", 1, NoResult, received)
             ELSE Outcome("", 1, DirectReturn(fn_result, context), received)

\* __call__
Call(sd, args, kwargs, fn_result) ==
    LET invalid ==
            Outcome("DagsterInvalidInvocationError", 0, NoResult, NoContext)
    IN  IF has_at_least_one_parameter(sd)
        THEN IF NoArguments(args, kwargs) THEN invalid
             ELSE IF MultipleArguments(args, kwargs) THEN invalid
             ELSE IF Len(args) = 0 /\ KeywordValue(kwargs, ContextParamName) = <<>>
             THEN invalid
             ELSE LET context ==
                          IF Len(args) > 0 THEN args[1]
                          ELSE KeywordValue(kwargs, ContextParamName)[1]
                  IN  IF opt_inst_param(context) # ""
                      THEN Outcome(opt_inst_param(context), 0, NoResult,
                                   NoContext)
                      ELSE IF NotContext(context) THEN invalid
                      ELSE DirectCall(sd, 1, context, fn_result)
        ELSE IF Len(args) + Len(kwargs) > 0 THEN invalid
             ELSE DirectCall(sd, 0, NoContext, fn_result)

\* A direct invocation as direct records it.
Invocation(args, kwargs, fn_result, outcome) ==
    [made |-> TRUE, args |-> args, kwargs |-> kwargs,
     fn_result |-> fn_result, outcome |-> outcome]

NoInvocation ==
    [made |-> FALSE, args |-> <<>>, kwargs |-> <<>>, fn_result |-> NoResult,
     outcome |-> Outcome("", 0, NoResult, NoContext)]

-----------------------------------------------------------------------------
(* Actions.                                                                *)

\* StoresReadOnly with a slip: the run records are purged.
StoresReadOnly_Purging == UNCHANGED events /\ runs' = [r \in DOMAIN runs |-> {}]

\* The tick and the direct invocation only read the instance
\* (get_event_records, get_run_records): the event log and the run storage
\* are left as they are.
StoresReadOnly == UNCHANGED <<events, runs>>

\* The execution engine stores an event record.
AppendEvent(event_type, run_id, max) ==
    /\ Len(events) < max
    /\ events' = Append(events,
                        EventRecord(event_type, run_id, 101 + Len(events)))
    /\ UNCHANGED <<runs, sensorDef, cursor, pc, fetched, batch, tickStart,
                   trace, evaluated, boot, raised, error, direct>>

\* The execution engine stores an event record whose timestamp is ts.
StoreEvent(event_type, run_id, ts, max) ==
    /\ Len(events) < max
    /\ events' = Append(events, EventRecord(event_type, run_id, ts))
    /\ UNCHANGED <<runs, sensorDef, cursor, pc, fetched, batch, tickStart,
                   trace, evaluated, boot, raised, error, direct>>

\* A caller invokes the sensor definition directly.
call(s, args, kwargs, fn_result) ==
    /\ direct' = [direct EXCEPT ![s] =
            Invocation(args, kwargs, fn_result,
                       Call(sensorDef[s], args, kwargs, fn_result))]
    /\ StoresReadOnly
    /\ UNCHANGED <<sensorDef, cursor, pc, fetched, batch, tickStart, trace,
                   evaluated, boot, raised, error>>

\* context_cursor with a slip: every tick reads the cursor of one sensor.
context_cursor_Shared(s) == cursor["s1"]

\* context.cursor: the cursor of the context the tick of s was given, the
\* sensor's own.
context_cursor(s) == cursor[s]

\* _wrapped_fn up to the loop: the bootstrap when the context has no valid
\* cursor, else the fetch of the records after the cursor.  The driver
\* starts a tick when the sensor's last one has ended.
wrapped_fn_start(s) ==
    /\ pc[s] \in {"idle", "returned", "raised"}
    /\ pc[s] = "raised" => raised[s] <= MaxRaised
    /\ tickStart' = [tickStart EXCEPT ![s] = context_cursor(s)]
    /\ IF context_cursor(s).form = "none" \/ ~is_valid(context_cursor(s))
       THEN LET new_cursor == BootstrapCursor(sensorDef[s].event_type)
            IN  /\ cursor' = [cursor EXCEPT ![s] = to_json(new_cursor)]
                /\ trace' = [trace EXCEPT ![s] =
                        <<UpdateCursor(to_json(new_cursor)),
                          Yield(new_cursor.record_id, SkipReason("Initiating"))>>]
                /\ boot' = [boot EXCEPT ![s] = <<new_cursor.record_id>>]
                /\ fetched' = [fetched EXCEPT ![s] = <<>>]
                /\ batch' = [batch EXCEPT ![s] = <<>>]
                /\ pc' = [pc EXCEPT ![s] = "returned"]
                /\ error' = [error EXCEPT ![s] = ""]
                /\ UNCHANGED raised
       ELSE IF deserialize_value(context_cursor(s)).exc # ""
       THEN \* from_json raises: the exception leaves the tick
            /\ pc' = [pc EXCEPT ![s] = "raised"]
            /\ error' = [error EXCEPT ![s] = deserialize_value(context_cursor(s)).exc]
            /\ raised' = [raised EXCEPT ![s] = @ + 1]
            /\ fetched' = [fetched EXCEPT ![s] = <<>>]
            /\ batch' = [batch EXCEPT ![s] = <<>>]
            /\ trace' = [trace EXCEPT ![s] = <<>>]
            /\ UNCHANGED <<cursor, boot>>
       ELSE LET c == from_json(context_cursor(s))
                event_records ==
                    FetchAfterCursor(c.record_id, c.update_timestamp,
                                     sensorDef[s].event_type)
            IN  /\ fetched' = [fetched EXCEPT ![s] = event_records]
                /\ batch' = [batch EXCEPT ![s] = event_records]
                /\ trace' = [trace EXCEPT ![s] = <<>>]
                /\ pc' = [pc EXCEPT ![s] =
                        IF event_records = <<>> THEN "returned" ELSE "scanning"]
                /\ error' = [error EXCEPT ![s] = ""]
                /\ UNCHANGED <<cursor, boot, raised>>
    /\ StoresReadOnly
    /\ UNCHANGED <<sensorDef, evaluated, direct>>

\* One pass of the loop of _wrapped_fn, over the next fetched record.
wrapped_fn_scan(s, fn_result) ==
    /\ pc[s] = "scanning"
    /\ batch[s] # <<>>
    /\ LET o == LoopBody(s, Head(batch[s]), fn_result)
       IN  /\ cursor' = [cursor EXCEPT ![s] =
                    IF o.cursor.form = "none" THEN @ ELSE o.cursor]
           /\ trace' = [trace EXCEPT ![s] = @ \o o.effs]
           /\ evaluated' = [evaluated EXCEPT ![s] =
                    IF o.invoked THEN Append(@, Head(batch[s])) ELSE @]
           /\ batch' = [batch EXCEPT ![s] = Tail(@)]
           /\ error' = [error EXCEPT ![s] = o.exc]
           /\ raised' = [raised EXCEPT ![s] = IF o.exc # "" THEN @ + 1 ELSE @]
           /\ pc' = [pc EXCEPT ![s] =
                    IF o.exc # "" THEN "raised"
                    ELSE IF o.stop \/ Tail(batch[s]) = <<>> THEN "returned"
                    ELSE "scanning"]
    /\ StoresReadOnly
    /\ UNCHANGED <<sensorDef, fetched, tickStart, boot, direct>>

-----------------------------------------------------------------------------
(* Specifications.                                                         *)

\* The sensors of Spec: one that monitors every job of its repository and
\* one that monitors every run of the instance.
SpecSensorDefs ==
    {RunStatusSensorDefinition("s1", FAILURE, 1, <<>>, FALSE),
     RunStatusSensorDefinition("s1", FAILURE, 1, <<>>, TRUE)}

IdleSensorDef == RunStatusSensorDefinition("s2", SUCCESS, 1, <<>>, FALSE)

SpecCursors ==
    {CursorNone, CursorMalformed}

InitOver(defs, cursors, tables) ==
    /\ events = <<>>
    /\ runs \in tables
    /\ sensorDef \in {f \in [Sensors -> defs \cup {IdleSensorDef}] :
                        /\ f["s1"] \in defs
                        /\ f["s2"] = IdleSensorDef}
    /\ cursor \in {f \in [Sensors -> cursors \cup {CursorNone}] :
                     /\ f["s1"] \in cursors
                     /\ f["s2"] = CursorNone}
    /\ pc = [s \in Sensors |-> "idle"]
    /\ fetched = [s \in Sensors |-> <<>>]
    /\ batch = [s \in Sensors |-> <<>>]
    /\ tickStart = cursor
    /\ trace = [s \in Sensors |-> <<>>]
    /\ evaluated = [s \in Sensors |-> <<>>]
    /\ boot = [s \in Sensors |->
                IF is_valid(cursor[s]) THEN <<from_json(cursor[s]).record_id>>
                ELSE <<>>]
    /\ raised = [s \in Sensors |-> 0]
    /\ error = [s \in Sensors |-> ""]
    /\ direct = [s \in Sensors |-> NoInvocation]

InitWith(defs, cursors) == InitOver(defs, cursors, {RunTable})

Init == InitWith(SpecSensorDefs, SpecCursors)

\* The events of Spec: the failure of a run of the sensor's repository, of a
\* run of another repository, of a run without origin and of a run that has
\* no record, and an event of the type the sensors of Spec do not monitor.
SpecEvents ==
    {<<"PIPELINE_FAILURE", r>> : r \in {"cur_a", "ext_a", "manual", "gone"}}
    \cup {<<"PIPELINE_SUCCESS", "cur_a">>}

Next ==
    \/ \E e \in SpecEvents : AppendEvent(e[1], e[2], MaxEvents)
    \/ wrapped_fn_start("s1")
    \/ \E fn_result \in FnResults : wrapped_fn_scan("s1", fn_result)

Spec == Init /\ [][Next]_vars

\* SpecScope: sensors of every scope over runs of every origin.  Each
\* declaration is <<monitored_jobs, job_selection, monitor_all_repositories>>,
\* the arguments of the decorator.
ScopeDeclarations ==
    {<<jobs, <<>>, FALSE>> :
        jobs \in {<<>>,
                  <<JobDefinition("job_a")>>,
                  <<JobSelector("loc2", "repo2", "job_a")>>,
                  <<RepositorySelector("loc2", "repo")>>,
                  <<JobDefinition("job_b"), RepositorySelector("loc2", "repo2")>>,
                  <<JobDefinition("job_b"), JobSelector("loc", "repo", "job_a")>>,
                  <<CodeLocationSelector("loc2")>>}}
    \cup {<<<<>>, <<>>, TRUE>>,
          <<<<JobSelector("loc2", "repo2", "job_a")>>, <<>>, TRUE>>,
          <<<<>>, <<JobDefinition("job_a")>>, TRUE>>}

\* The sensors the decorator returns for the declarations.
ScopeSensorDefs ==
    LET made == {run_status_sensor("s1", FAILURE, 1, d[1], d[2], d[3]) :
                    d \in ScopeDeclarations}
    IN  {m.sensor : m \in {x \in made : x.exc = ""}}

ScopeCursors == {CursorNone, LegacyJson(NoEventId, <<"iso", 100>>)}

ScopeEvents ==
    {<<"PIPELINE_FAILURE", r>> : r \in RunIds}
    \cup {<<"PIPELINE_SUCCESS", "cur_a">>}

ScopeFnResults ==
    {FnResult("none", <<>>), FnResult("single", <<RunRequest("k1")>>)}

InitScope == InitWith(ScopeSensorDefs, ScopeCursors)

NextScope ==
    \/ \E e \in ScopeEvents : AppendEvent(e[1], e[2], MaxScopeEvents)
    \/ wrapped_fn_start("s1")
    \/ \E fn_result \in ScopeFnResults : wrapped_fn_scan("s1", fn_result)

SpecScope == InitScope /\ [][NextScope]_vars

\* SpecCodec: ticks over every kind of stored cursor string.
MaxCodecEvents == 2   \* events appended to the log under SpecCodec

CodecSensorDefs == {RunStatusSensorDefinition("s1", FAILURE, 1, <<>>, FALSE)}

CodecCursors ==
    {CursorNone, CursorMalformed, CursorOtherTuple, CursorPlainObject,
     LegacyJson(NoEventId, <<"iso", 100>>),
     to_json(RunStatusSensorCursor(NoEventId, <<"iso", 100>>))}

CodecEvents ==
    {<<"PIPELINE_FAILURE", r>> : r \in {"cur_a", "gone"}}
    \cup {<<"PIPELINE_SUCCESS", "cur_a">>}

InitCodec == InitWith(CodecSensorDefs, CodecCursors)

NextCodec ==
    \/ \E e \in CodecEvents : AppendEvent(e[1], e[2], MaxCodecEvents)
    \/ wrapped_fn_start("s1")
    \/ \E fn_result \in ScopeFnResults : wrapped_fn_scan("s1", fn_result)

SpecCodec == InitCodec /\ [][NextCodec]_vars

\* SpecCatchUp: a log longer than one batch, with records that match, that
\* do not match and whose run has no origin.
MaxCatchUpEvents == 6   \* events appended to the log under SpecCatchUp

CatchUpCursors == {to_json(RunStatusSensorCursor(NoEventId, <<"iso", 100>>))}

CatchUpEvents ==
    {<<"PIPELINE_FAILURE", r>> : r \in {"cur_a", "ext_a", "manual"}}

CatchUpFnResults == {FnResult("none", <<>>)}

InitCatchUp == InitWith(CodecSensorDefs, CatchUpCursors)

NextCatchUp ==
    \/ \E e \in CatchUpEvents : AppendEvent(e[1], e[2], MaxCatchUpEvents)
    \/ wrapped_fn_start("s1")
    \/ \E fn_result \in CatchUpFnResults : wrapped_fn_scan("s1", fn_result)

SpecCatchUp == InitCatchUp /\ [][NextCatchUp]_vars

\* SpecInvoke: sensors of both decorators around user functions of no and
\* of one parameter, ticked and invoked directly.
MaxInvokeEvents == 2   \* events appended to the log under SpecInvoke

InvokeSensorDefs ==
    {run_status_sensor("s1", FAILURE, n, <<>>, <<>>, FALSE).sensor : n \in {0, 1}}
    \cup {run_failure_sensor("s1", n, <<>>, <<>>, FALSE).sensor : n \in {0, 1}}

InvokeEvents ==
    {<<"PIPELINE_FAILURE", "cur_a">>, <<"PIPELINE_SUCCESS", "cur_a">>}

\* The context a caller builds with build_run_status_sensor_context.
BuiltContext == RunStatusSensorContext("s1", "cur_a", 1)

InvokeArgs ==
    {<<>>, <<BuiltContext>>, <<NoContext>>, <<NotAContext>>,
     <<BuiltContext, BuiltContext>>}

InvokeKwargs ==
    {<<>>, <<<<"context", BuiltContext>>>>, <<<<"ctx", BuiltContext>>>>,
     <<<<"context", NoContext>>>>}

InvokeFnResults ==
    {FnResult("none", <<>>), FnResult("raise", <<>>),
     FnResult("single", <<RunRequest("k1")>>)}

InvokeCursors == CatchUpCursors \cup {CursorNone}

InitInvoke == InitWith(InvokeSensorDefs, InvokeCursors)

NextInvoke ==
    \/ \E e \in InvokeEvents : AppendEvent(e[1], e[2], MaxInvokeEvents)
    \/ wrapped_fn_start("s1")
    \/ \E fn_result \in InvokeFnResults : wrapped_fn_scan("s1", fn_result)
    \/ \E args \in InvokeArgs, kwargs \in InvokeKwargs,
          fn_result \in InvokeFnResults : call("s1", args, kwargs, fn_result)

SpecInvoke == InitInvoke /\ [][NextInvoke]_vars

\* SpecTwo: two sensors tick over the same log, in any interleaving: s1
\* monitors the failures and s2 the successes.
MaxTwoEvents == 3   \* events appended to the log under SpecTwo

TwoEvents ==
    {<<"PIPELINE_FAILURE", "cur_a">>, <<"PIPELINE_FAILURE", "gone">>,
     <<"PIPELINE_SUCCESS", "cur_a">>}

TwoFnResults ==
    {FnResult("none", <<>>), FnResult("single", <<RunRequest("k1")>>)}

InitTwo == InitWith(CodecSensorDefs, CatchUpCursors)

NextTwo ==
    \/ \E e \in TwoEvents : AppendEvent(e[1], e[2], MaxTwoEvents)
    \/ \E s \in Sensors : wrapped_fn_start(s)
    \/ \E s \in Sensors, fn_result \in TwoFnResults : wrapped_fn_scan(s, fn_result)

SpecTwo == InitTwo /\ [][NextTwo]_vars

\* SpecClock: the same records under different times: the time an event is
\* stored, the update time of the runs and the time of the stored cursor
\* (the clock of its bootstrap) vary.
MaxClockEvents == 3   \* events appended to the log under SpecClock

\* The run table with every update time moved by d.
Retimed(table, d) ==
    [run_id \in DOMAIN table |->
        {[r EXCEPT !.update_timestamp = <<"utc", r.update_timestamp[2] + d>>] :
            r \in table[run_id]}]

ClockRunTables == {RunTable, Retimed(RunTable, 200)}

ClockCursors ==
    {to_json(RunStatusSensorCursor(NoEventId, <<"iso", t>>)) : t \in {100, 150}}

ClockEvents ==
    {<<"PIPELINE_FAILURE", r>> : r \in {"cur_a", "ext_a", "gone"}}

\* The times an event may be stored at: before and after the time of the
\* stored cursors.
EventTimes == {7, 120}

ClockFnResults ==
    {FnResult("none", <<>>), FnResult("single", <<RunRequest("k1")>>)}

InitClock == InitOver(CodecSensorDefs, ClockCursors, ClockRunTables)

NextClock ==
    \/ \E e \in ClockEvents, ts \in EventTimes :
          StoreEvent(e[1], e[2], ts, MaxClockEvents)
    \/ wrapped_fn_start("s1")
    \/ \E fn_result \in ClockFnResults : wrapped_fn_scan("s1", fn_result)

SpecClock == InitClock /\ [][NextClock]_vars

\* SpecDecl: sensors of both decorators declared with monitored_jobs and
\* job_selection, over runs of the sensor's repository, of a repository of
\* another location and of the repository "__repository__" of that location.
\* Each declaration is <<monitored_jobs, job_selection>>.
MaxDeclEvents == 2   \* events appended to the log under SpecDecl

DeclDeclarations ==
    {<<<<CodeLocationSelector("loc2")>>, <<>>>>,
     <<<<RepositorySelector("loc2", "__repository__")>>, <<>>>>,
     <<<<JobDefinition("job_b")>>, <<JobDefinition("job_a")>>>>,
     <<<<>>, <<JobDefinition("job_a")>>>>,
     <<<<JobDefinition("job_b"), CodeLocationSelector("loc2")>>,
       <<RepositorySelector("loc2", "repo2")>>>>,
     <<<<>>, <<CodeLocationSelector("loc2")>>>>}

\* The sensors the two decorators return for a declaration.
MadeFrom(d) ==
    {run_status_sensor("s1", FAILURE, 1, d[1], d[2], FALSE).sensor,
     run_failure_sensor("s1", 1, d[1], d[2], FALSE).sensor}

DeclSensorDefs == UNION {MadeFrom(d) : d \in DeclDeclarations}

DeclRunTable ==
    [run_id \in {"cur_a", "cur_b", "ext_a", "loc_a"} |->
        CASE run_id = "cur_a" -> {RunRecord("job_a", TRUE, "loc", "repo", 11)}
          [] run_id = "cur_b" -> {RunRecord("job_b", TRUE, "loc", "repo", 12)}
          [] run_id = "ext_a" -> {RunRecord("job_a", TRUE, "loc2", "repo2", 13)}
          [] OTHER -> {RunRecord("job_a", TRUE, "loc2", "__repository__", 16)}]

DeclEvents == {<<"PIPELINE_FAILURE", r>> : r \in DOMAIN DeclRunTable}

DeclFnResults ==
    {FnResult("none", <<>>), FnResult("single", <<RunRequest("k1")>>)}

InitDecl == InitOver(DeclSensorDefs, CatchUpCursors, {DeclRunTable})

NextDecl ==
    \/ \E e \in DeclEvents : AppendEvent(e[1], e[2], MaxDeclEvents)
    \/ wrapped_fn_start("s1")
    \/ \E fn_result \in DeclFnResults : wrapped_fn_scan("s1", fn_result)

SpecDecl == InitDecl /\ [][NextDecl]_vars

-----------------------------------------------------------------------------
(* What the properties below speak of.                                     *)

\* The record id of the cursor a sensor's context holds.
CursorId(s) == from_json(cursor[s]).record_id

\* The positions of the effects op in the trace of s.
Positions(s, op) == {i \in 1..Len(trace[s]) : trace[s][i].op = op}

IsYield(e) == e.op = "yield"
IsUpdate(e) == e.op = "update_cursor"

\* The outputs the tick of s has emitted, in order.
Emitted(s) ==
    LET ys == SelectSeq(trace[s], IsYield)
    IN  [i \in 1..Len(ys) |-> ys[i].out]

\* The record ids the tick of s has given to context.update_cursor, in order.
Updates(s) ==
    LET us == SelectSeq(trace[s], IsUpdate)
    IN  [i \in 1..Len(us) |-> us[i].id]

\* The effects of the trace of s from position i + 1 to its end.
After(s, i) == SubSeq(trace[s], i + 1, Len(trace[s]))

\* The id of the most recent record of event_type in the log, or -1.
LatestId(event_type) ==
    LET ids == {i \in 1..Len(events) : events[i].event_type = event_type}
    IN  IF ids = {} THEN -1 ELSE CHOOSE i \in ids : \A j \in ids : j <= i

\* Whether the record id is of the type s monitors, has a run record and
\* that run matches the scope of s.
Matches(s, id) ==
    /\ events[id].event_type = sensorDef[s].event_type
    /\ runs[events[id].run_id] # {}
    /\ \A r \in runs[events[id].run_id] :
          job_match(sensorDef[s], r, ContextRepositoryName) = "match"

RECURSIVE Ascending(_, _)
\* The ids of lo..hi that satisfy Matches, ascending.
MatchingBetween(s, lo, hi) ==
    LET ids == {i \in lo..hi : i >= 1 /\ i <= Len(events) /\ Matches(s, i)}
    IN  Ascending(ids, <<>>)
Ascending(ids, acc) ==
    IF ids = {} THEN acc
    ELSE LET x == CHOOSE i \in ids : \A j \in ids : i <= j
         IN  Ascending(ids \ {x}, Append(acc, x))

\* The reaction the tick synthesizes for the record id.
ReactionFor(id, err) == Yield(id, PipelineRunReaction(events[id].run_id, err))

\* The update of the cursor to the record id, with its run's timestamp.
UpdateFor(id) ==
    LET r == CHOOSE x \in runs[events[id].run_id] : TRUE
    IN  UpdateCursor(VisitedCursor(id, r.update_timestamp))

\* The record fetched after id by the tick of s, as <<next>>, or <<>>.
FetchedAfter(s, id) ==
    LET later == {k \in 1..Len(fetched[s]) : fetched[s][k] > id}
    IN  IF later = {} THEN <<>>
        ELSE <<fetched[s][CHOOSE k \in later : \A j \in later : k <= j]>>

-----------------------------------------------------------------------------
(* C1.                                                                     *)

\* C1: a tick of a sensor whose context has no cursor calls the user
\* function zero times, emits exactly one SkipReason and nothing else, and
\* sets the cursor's record_id to the id of the most recent record of the
\* monitored event type, or to -1 when the log has none.
C1_BootstrapSkipsHistory ==
    [][\A s \in Sensors :
        (cursor[s].form = "none" /\ pc'[s] # pc[s]) =>
            /\ pc'[s] = "returned"
            /\ evaluated'[s] = evaluated[s]
            /\ \A i \in 1..Len(trace'[s]) : trace'[s][i].op # "invoke"
            /\ LET ys == SelectSeq(trace'[s], IsYield)
               IN  Len(ys) = 1 /\ ys[1].out.kind = "SkipReason"
            /\ from_json(cursor'[s]).record_id =
                    LatestId(sensorDef[s].event_type)]_vars

\* A sensor without cursor has ticked on a log whose most recent record of
\* the monitored type is not the last record of the log.
C1_Witness ==
    \E s \in Sensors :
        /\ tickStart[s].form = "none"
        /\ pc[s] = "returned"
        /\ Len(Emitted(s)) = 1
        /\ Emitted(s)[1].kind = "SkipReason"
        /\ CursorId(s) >= 1
        /\ CursorId(s) < Len(events)
        /\ events[Len(events)].event_type # sensorDef[s].event_type

-----------------------------------------------------------------------------
(* C2.                                                                     *)

\* C2: over cleanly completed ticks of a sensor, the records handed to the
\* user function are exactly the records after the bootstrap cursor, up to
\* the cursor, that are of the monitored type and match the scope: each
\* once, none left out, in ascending order of record id.
C2_EvaluatedExactlyOnceInOrder ==
    \A s \in Sensors :
        (pc[s] = "returned" /\ raised[s] = 0 /\ boot[s] # <<>>) =>
            evaluated[s] = MatchingBetween(s, boot[s][1] + 1, CursorId(s))

\* Two ticks have completed cleanly; between two evaluated records the
\* cursor has passed a record of the monitored type that was not evaluated.
C2_Witness ==
    \E s \in Sensors :
        /\ pc[s] = "returned"
        /\ raised[s] = 0
        /\ boot[s] # <<>>
        /\ Len(evaluated[s]) = 2
        /\ evaluated[s][2] = evaluated[s][1] + 2
        /\ events[evaluated[s][1] + 1].event_type = sensorDef[s].event_type
        /\ CursorId(s) = evaluated[s][2]
        /\ Len(fetched[s]) = 1

-----------------------------------------------------------------------------
(* C3.                                                                     *)

\* C3: the record ids a tick gives to context.update_cursor never decrease,
\* the first is not below the record id of the cursor the tick began with,
\* and the cursor the context holds is the last one given (the one the
\* next tick begins with).
C3_CursorMonotonic ==
    \A s \in Sensors :
        LET ups == Updates(s)
        IN  /\ \A i \in 1..(Len(ups) - 1) : ups[i] <= ups[i + 1]
            /\ (ups # <<>> /\ is_valid(tickStart[s])) =>
                    ups[1] >= from_json(tickStart[s]).record_id
            /\ ups # <<>> => CursorId(s) = ups[Len(ups)]
            /\ ups = <<>> => cursor[s] = tickStart[s] \/ pc[s] = "idle"

\* A tick that began with a valid cursor has moved it over a skipped record,
\* a record whose run is missing and an evaluated record.
C3_Witness ==
    \E s \in Sensors :
        /\ is_valid(tickStart[s])
        /\ Cardinality({Updates(s)[i] : i \in 1..Len(Updates(s))}) = 3
        /\ Positions(s, "invoke") # {}
        /\ \E i \in Positions(s, "inspect") :
              runs[events[trace[s][i].id].run_id] = {}

-----------------------------------------------------------------------------
(* C4.                                                                     *)

\* The yields of the tick of s for the record id, in order.
YieldsFor(s, id) ==
    LET for_id(e) == e.op = "yield" /\ e.id = id
    IN  SelectSeq(trace[s], for_id)

\* Whether the tick of s visits a record after position i of its trace.
InspectsAfter(s, i) ==
    \E j \in Positions(s, "inspect") : j > i

\* Whether the calls of the tick of s all ended at once: with None, with an
\* exception of the call itself, or with outputs that were all emitted.
PlainCalls(s) ==
    \A i \in Positions(s, "invoke") : trace[s][i].res.ret # "gen_raise"

\* C4 as stated: a completed tick that evaluated a record emitted exactly
\* one decision (one reaction, or the user's outputs of one call) and
\* visited no record after the first one it evaluated.  (Stated for the
\* ticks whose calls all ended at once.)
C4_OneDecisionPerTick ==
    \A s \in Sensors :
        (pc[s] = "returned" /\ Positions(s, "invoke") # {} /\ PlainCalls(s)) =>
            LET first == CHOOSE i \in Positions(s, "invoke") :
                            \A j \in Positions(s, "invoke") : i <= j
                id == trace[s][first].id
            IN  /\ ~InspectsAfter(s, first)
                /\ \A i \in Positions(s, "yield") : trace[s][i].id = id
                /\ \/ Emitted(s) = trace[s][first].res.outs
                   \/ /\ Len(Emitted(s)) = 1
                      /\ Emitted(s)[1].kind = "PipelineRunReaction"

\* C4, amended: one decision per evaluated record, not per tick.  For every
\* record a tick evaluates it emits exactly one of: the user's outputs (the
\* call returned a value), one synthesized reaction (it returned None), one
\* error reaction (it raised); a returned generator that raises while it is
\* iterated gives its outputs and then the error reaction.  No record after
\* an evaluated one is visited when the call returned its outputs; after a
\* reaction the loop goes on to the next fetched record, if there is one.
C4_OneDecisionPerEvaluatedRecord ==
    \A s \in Sensors :
        \A i \in Positions(s, "invoke") :
            LET id == trace[s][i].id
                res == trace[s][i].res
                error_reaction ==
                    <<ReactionFor(id, serializable_error_info_from_exc_info)>>
                returned == res.ret \in {"single", "list"}
            IN  /\ YieldsFor(s, id) =
                        CASE res.ret = "none" -> <<ReactionFor(id, NoError)>>
                          [] res.ret = "raise" -> error_reaction
                          [] res.ret = "gen_raise" ->
                                YieldAll(id, res.outs) \o error_reaction
                          [] OTHER -> YieldAll(id, res.outs)
                /\ returned => ~InspectsAfter(s, i) /\ pc[s] = "returned"
                /\ (~returned /\ pc[s] # "scanning"
                        /\ FetchedAfter(s, id) # <<>>) =>
                      \E j \in Positions(s, "inspect") :
                          j > i /\ trace[s][j].id = FetchedAfter(s, id)[1]

\* A completed tick has evaluated three records: the call raised for the
\* first, returned None for the second and returned outputs for the third.
C4_Witness ==
    \E s \in Sensors :
        /\ pc[s] = "returned"
        /\ \E i, j, k \in Positions(s, "invoke") :
              /\ i < j /\ j < k
              /\ trace[s][i].res.ret = "raise"
              /\ trace[s][j].res.ret = "none"
              /\ trace[s][k].res.ret = "list"
              /\ Len(trace[s][k].res.outs) = 2
        /\ Len(Emitted(s)) = 4

-----------------------------------------------------------------------------
(* C5.                                                                     *)

\* C5 as stated: a tick calls the user function at most once.  (Stated for
\* the ticks whose calls all ended at once.)
C5_AtMostOneInvocationPerTick ==
    \A s \in Sensors :
        PlainCalls(s) => Cardinality(Positions(s, "invoke")) <= 1

\* C5, amended: a tick calls the user function at most once for each record
\* it fetched, so at most 5 times, for records of ascending id, and never
\* again after a call whose returned value (other than None) was emitted
\* without an exception.
C5_AtMostOneInvocationPerRecord ==
    \A s \in Sensors :
        /\ Cardinality(Positions(s, "invoke")) <= Len(fetched[s])
        /\ Len(fetched[s]) <= BatchLimit
        /\ \A i, j \in Positions(s, "invoke") :
              i < j =>
                  /\ trace[s][i].id < trace[s][j].id
                  /\ ~SensorReturnIsNotNone(trace[s][i].res)
                        \/ trace[s][i].res.ret = "gen_raise"
        /\ \A i \in Positions(s, "invoke") :
              \E k \in 1..Len(fetched[s]) : fetched[s][k] = trace[s][i].id

\* A tick has called the user function for every one of three fetched
\* records.
C5_Witness ==
    \E s \in Sensors :
        /\ Len(fetched[s]) = 3
        /\ Cardinality(Positions(s, "invoke")) = 3
        /\ pc[s] = "returned"

-----------------------------------------------------------------------------
(* C6.                                                                     *)

\* C6 as stated: when the call for the record N raises, the completed tick
\* has emitted one reaction for N's run with an error, its cursor is at N,
\* and it visited no record after N.
C6_CrashStopsTick ==
    \A s \in Sensors :
        \A i \in Positions(s, "invoke") :
            (trace[s][i].res.ret = "raise" /\ pc[s] = "returned") =>
                /\ YieldsFor(s, trace[s][i].id) =
                      <<ReactionFor(trace[s][i].id,
                                    serializable_error_info_from_exc_info)>>
                /\ CursorId(s) = trace[s][i].id
                /\ ~InspectsAfter(s, i)

\* C6, amended: when the call for the matched record N raises, the tick
\* advances the cursor to N, emits one reaction for N's run that carries a
\* non-empty error, and does not stop: it goes on to the next record of the
\* batch, which is visited in the same tick.
C6_CrashIsolation ==
    \A s \in Sensors :
        \A i \in Positions(s, "invoke") :
            trace[s][i].res.ret = "raise" =>
                LET id == trace[s][i].id
                IN  /\ Len(trace[s]) >= i + 2
                    /\ trace[s][i + 1] = UpdateFor(id)
                    /\ trace[s][i + 2].op = "yield"
                    /\ trace[s][i + 2].out.kind = "PipelineRunReaction"
                    /\ trace[s][i + 2].out.run_id = events[id].run_id
                    /\ trace[s][i + 2].out.error # NoError
                    /\ YieldsFor(s, id) = <<trace[s][i + 2]>>
                    /\ (pc[s] # "scanning" /\ FetchedAfter(s, id) # <<>>) =>
                          /\ Len(trace[s]) >= i + 3
                          /\ trace[s][i + 3] = Inspect(FetchedAfter(s, id)[1])

\* The call raised for the first of two fetched records, and the tick went
\* on to evaluate the second.
C6_Witness ==
    \E s \in Sensors :
        /\ pc[s] = "returned"
        /\ Len(fetched[s]) = 2
        /\ \E i, j \in Positions(s, "invoke") :
              /\ i < j
              /\ trace[s][i].res.ret = "raise"
              /\ trace[s][i].id = fetched[s][1]
              /\ trace[s][j].id = fetched[s][2]

-----------------------------------------------------------------------------
(* C7.                                                                     *)

\* C7: an exception raised by the user function does not leave the tick.
\* The tick emits a reaction that carries the captured error for the record
\* and goes on; a tick that ends in an exception ends in one of the tick's
\* own checks on a visited record, never in the exception of a call.
C7_UserExceptionNeverPropagates ==
    \A s \in Sensors :
        /\ error[s] # "RunStatusSensorExecutionError"
        /\ pc[s] = "raised" => trace[s][Len(trace[s])].op = "inspect"
        /\ \A i \in Positions(s, "invoke") :
              trace[s][i].res.ret \in {"raise", "gen_raise"} =>
                  \E j \in Positions(s, "yield") :
                      /\ j > i
                      /\ trace[s][j] =
                            ReactionFor(trace[s][i].id,
                                        serializable_error_info_from_exc_info)

\* A tick in which a call raised has completed normally.
C7_Witness ==
    \E s \in Sensors :
        /\ pc[s] = "returned"
        /\ error[s] = ""
        /\ \E i \in Positions(s, "invoke") : trace[s][i].res.ret = "raise"
        /\ \E i \in Positions(s, "invoke") : trace[s][i].res.ret = "gen_raise"

-----------------------------------------------------------------------------
(* C8.                                                                     *)

\* C8 as stated: when the call for a record returns None, the completed
\* tick has emitted one reaction without error for it, its cursor is at that
\* record, and it visited no later record.
C8_NoneStopsTick ==
    \A s \in Sensors :
        \A i \in Positions(s, "invoke") :
            (trace[s][i].res.ret = "none" /\ pc[s] = "returned") =>
                /\ YieldsFor(s, trace[s][i].id) =
                      <<ReactionFor(trace[s][i].id, NoError)>>
                /\ CursorId(s) = trace[s][i].id
                /\ ~InspectsAfter(s, i)

\* C8, amended: when the call for a matched record returns None, the tick
\* advances the cursor to that record, emits exactly one synthesized
\* reaction for the record's run with no error, and does not stop: it goes
\* on to the next record of the batch, which is visited in the same tick.
C8_NoneSynthesizesReaction ==
    \A s \in Sensors :
        \A i \in Positions(s, "invoke") :
            trace[s][i].res.ret = "none" =>
                LET id == trace[s][i].id
                IN  /\ Len(trace[s]) >= i + 2
                    /\ trace[s][i + 1] = UpdateFor(id)
                    /\ trace[s][i + 2] = ReactionFor(id, NoError)
                    /\ YieldsFor(s, id) = <<ReactionFor(id, NoError)>>
                    /\ (pc[s] # "scanning" /\ FetchedAfter(s, id) # <<>>) =>
                          /\ Len(trace[s]) >= i + 3
                          /\ trace[s][i + 3] = Inspect(FetchedAfter(s, id)[1])

\* The call returned None for the first of two fetched records, and the
\* tick went on to visit the second, which it skipped.
C8_Witness ==
    \E s \in Sensors :
        /\ pc[s] = "returned"
        /\ Len(fetched[s]) = 2
        /\ Cardinality(Positions(s, "invoke")) = 1
        /\ \E i \in Positions(s, "invoke") :
              /\ trace[s][i].res.ret = "none"
              /\ trace[s][i].id = fetched[s][1]
        /\ CursorId(s) = fetched[s][2]

-----------------------------------------------------------------------------
(* C9.                                                                     *)

\* C9: when the call for a matched record returns one output or a sequence
\* of one or more outputs, the tick advances the cursor to that record,
\* emits exactly those outputs in their order and nothing else for it, and
\* stops: it visits no later record of the batch.
C9_OutputsVerbatimThenStop ==
    \A s \in Sensors :
        \A i \in Positions(s, "invoke") :
            LET id == trace[s][i].id
                res == trace[s][i].res
            IN  (res.ret \in {"single", "list"} /\ Len(res.outs) >= 1) =>
                    /\ Len(trace[s]) = i + 1 + Len(res.outs)
                    /\ trace[s][i + 1] = UpdateFor(id)
                    /\ \A k \in 1..Len(res.outs) :
                          trace[s][i + 1 + k] = Yield(id, res.outs[k])
                    /\ CursorId(s) = id
                    /\ pc[s] = "returned"
                    /\ (res.ret = "single" => Len(res.outs) = 1)

\* The call returned two outputs for the first of two fetched records: the
\* tick emitted them and left the second record unvisited.
C9_Witness ==
    \E s \in Sensors :
        /\ pc[s] = "returned"
        /\ Len(fetched[s]) = 2
        /\ batch[s] = <<fetched[s][2]>>
        /\ Emitted(s) = <<RunRequest("k1"), RunRequest("k2")>>
        /\ CursorId(s) = fetched[s][1]

-----------------------------------------------------------------------------
(* C10.                                                                    *)

\* C10: a sensor that monitors all repositories matches every record of its
\* event type whose run record is found: each such record it visits is
\* handed to the user function, whatever the location, repository and job
\* of the run and whether or not the run has an origin, and the matching
\* never ends the tick in an exception.
C10_MonitorAllMatchesEveryRun ==
    \A s \in Sensors :
        sensorDef[s].monitor_all_repositories =>
            /\ pc[s] # "raised"
            /\ \A i \in Positions(s, "inspect") :
                  LET id == trace[s][i].id
                  IN  get_run_records(events[id].run_id) # {} =>
                          /\ Len(trace[s]) > i
                          /\ trace[s][i + 1].op = "invoke"
                          /\ trace[s][i + 1].id = id

\* A monitor-all sensor evaluated, in one tick, a run of another location
\* and repository and a run without origin.
C10_Witness ==
    \E s \in Sensors :
        /\ sensorDef[s].monitor_all_repositories
        /\ pc[s] = "returned"
        /\ \E i, j \in Positions(s, "invoke") :
              /\ events[trace[s][i].id].run_id = "ext_a"
              /\ events[trace[s][j].id].run_id = "manual"

-----------------------------------------------------------------------------
(* C11.                                                                    *)

\* C11: for a sensor that does not monitor all repositories, a record whose
\* run has no origin is a no-match: the tick does not call the user function
\* for it and does not end in an exception; it advances the cursor to the
\* record's id with the run's update timestamp and goes on.
C11_NoOriginIsNoMatch ==
    \A s \in Sensors :
        ~sensorDef[s].monitor_all_repositories =>
            \A i \in Positions(s, "inspect") :
                LET id == trace[s][i].id
                    run_records == get_run_records(events[id].run_id)
                IN  (run_records # {} /\ \A r \in run_records : ~r.has_origin) =>
                        /\ error[s] = ""
                        /\ Len(trace[s]) > i
                        /\ trace[s][i + 1] = UpdateFor(id)

-----------------------------------------------------------------------------
(* C12, C13, C14: the scope of a sensor.                                   *)

\* The location of the repository the sensors run in.
ContextLocationName == "loc"

\* Whether the run originates in the repository the sensor runs in: the
\* same location and the same repository.
OriginatesInCurrentScope(r) ==
    /\ r.has_origin
    /\ r.location_name = ContextLocationName
    /\ r.repository_name = ContextRepositoryName

\* Whether the run originates in another repository.
OriginatesInOtherScope(r) == r.has_origin /\ ~OriginatesInCurrentScope(r)

\* Whether the job of the run is one of the jobs of the current repository
\* the sensor was given.
InJobList(sd, r) ==
    \E k \in 1..Len(sd.monitored_jobs) :
        /\ sd.monitored_jobs[k].sel = "JobDefinition"
        /\ sd.monitored_jobs[k].job_name = r.pipeline_name

\* Whether the sensor was given a job of the current repository.
HasJobList(sd) ==
    \E k \in 1..Len(sd.monitored_jobs) : sd.monitored_jobs[k].sel = "JobDefinition"

\* Whether a job selector of the sensor equals the run's (location,
\* repository, job) or a repository selector its (location, repository).
NamedBySelector(sd, r) ==
    \E k \in 1..Len(sd.monitored_jobs) :
        LET x == sd.monitored_jobs[k]
        IN  /\ x.sel \in {"JobSelector", "RepositorySelector"}
            /\ x.location_name = r.location_name
            /\ x.repository_name = r.repository_name
            /\ x.sel = "JobSelector" => x.job_name = r.pipeline_name

\* The run record of the record visited at position i of the trace of s.
RunAt(s, i) == CHOOSE r \in runs[events[trace[s][i].id].run_id] : TRUE

\* The positions of the trace of s where a record with a run record is
\* visited.
Visits(s) ==
    {i \in Positions(s, "inspect") : runs[events[trace[s][i].id].run_id] # {}}

\* The record visited at position i was handed to the user function.
EvaluatedAt(s, i) ==
    /\ Len(trace[s]) > i
    /\ trace[s][i + 1].op = "invoke"
    /\ trace[s][i + 1].id = trace[s][i].id

\* The record visited at position i was skipped: the cursor was advanced to
\* it and the user function was not called.
SkippedAt(s, i) ==
    /\ Len(trace[s]) > i
    /\ trace[s][i + 1] = UpdateFor(trace[s][i].id)

\* C12 as stated: for a sensor (not monitor-all) with a non-empty list of
\* jobs of the current repository, a record that originates in the current
\* repository matches if and only if its job is in the list, whatever
\* selectors the sensor holds; else it is skipped.
C12_InScopeMatchesIffListed ==
    \A s \in Sensors :
        (~sensorDef[s].monitor_all_repositories /\ HasJobList(sensorDef[s])) =>
            \A i \in Visits(s) :
                OriginatesInCurrentScope(RunAt(s, i)) =>
                    IF InJobList(sensorDef[s], RunAt(s, i))
                    THEN EvaluatedAt(s, i)
                    ELSE SkippedAt(s, i)

\* C12, amended: for such a sensor and record, the record matches if and
\* only if its job is in the list or one of the sensor's selectors names the
\* run: a job selector equal to its (location, repository, job) or a
\* repository selector equal to its (location, repository).  A record that
\* does not match is skipped: cursor advanced, user function not called.
C12_InScopeMatchesIffListedOrSelected ==
    \A s \in Sensors :
        (~sensorDef[s].monitor_all_repositories /\ HasJobList(sensorDef[s])) =>
            \A i \in Visits(s) :
                OriginatesInCurrentScope(RunAt(s, i)) =>
                    IF \/ InJobList(sensorDef[s], RunAt(s, i))
                       \/ NamedBySelector(sensorDef[s], RunAt(s, i))
                    THEN EvaluatedAt(s, i)
                    ELSE SkippedAt(s, i)

\* A sensor with a job list and a selector of another repository has, in
\* one tick, skipped a record of the current repository whose job is not
\* listed and evaluated one whose job is.
C12_Witness ==
    \E s \in Sensors :
        /\ ~sensorDef[s].monitor_all_repositories
        /\ HasJobList(sensorDef[s])
        /\ Len(sensorDef[s].other_repos) > 0
        /\ pc[s] = "returned"
        /\ \E i, j \in Visits(s) :
              /\ events[trace[s][i].id].run_id = "cur_a"
              /\ SkippedAt(s, i)
              /\ events[trace[s][j].id].run_id = "cur_b"
              /\ EvaluatedAt(s, j)

\* C13 as stated: for a sensor (not monitor-all) without jobs of the
\* current repository, every record that originates in the current
\* repository matches, also when the sensor holds selectors.
C13_EmptyListMatchesInScope ==
    \A s \in Sensors :
        (~sensorDef[s].monitor_all_repositories /\ ~HasJobList(sensorDef[s])) =>
            \A i \in Visits(s) :
                OriginatesInCurrentScope(RunAt(s, i)) => EvaluatedAt(s, i)

\* C13, amended: for a sensor (not monitor-all) whose monitored_jobs is
\* empty altogether, every record that originates in the current repository
\* matches.  A sensor that holds selectors and no job of the current
\* repository matches such a record only when one of its selectors names
\* the run; otherwise the record is skipped.
C13_NoJobsMatchesInScope ==
    \A s \in Sensors :
        (~sensorDef[s].monitor_all_repositories /\ ~HasJobList(sensorDef[s])) =>
            \A i \in Visits(s) :
                OriginatesInCurrentScope(RunAt(s, i)) =>
                    IF \/ Len(sensorDef[s].monitored_jobs) = 0
                       \/ NamedBySelector(sensorDef[s], RunAt(s, i))
                    THEN EvaluatedAt(s, i)
                    ELSE SkippedAt(s, i)

\* A sensor without monitored_jobs has evaluated, in one tick, records of
\* two jobs of the current repository.
C13_Witness ==
    \E s \in Sensors :
        /\ ~sensorDef[s].monitor_all_repositories
        /\ Len(sensorDef[s].monitored_jobs) = 0
        /\ pc[s] = "returned"
        /\ \E i, j \in Visits(s) :
              /\ events[trace[s][i].id].run_id = "cur_a"
              /\ EvaluatedAt(s, i)
              /\ events[trace[s][j].id].run_id = "cur_b"
              /\ EvaluatedAt(s, j)

\* C14: for a sensor that is not monitor-all, a record that originates in
\* another repository (another location or another repository name) matches
\* if and only if one of the sensor's selectors names the run; else it is
\* skipped with the cursor advanced.
C14_OtherScopeMatchesIffSelected ==
    \A s \in Sensors :
        ~sensorDef[s].monitor_all_repositories =>
            \A i \in Visits(s) :
                OriginatesInOtherScope(RunAt(s, i)) =>
                    IF NamedBySelector(sensorDef[s], RunAt(s, i))
                    THEN EvaluatedAt(s, i)
                    ELSE SkippedAt(s, i)

-----------------------------------------------------------------------------
(* C15.                                                                    *)

\* C15: no sensor both monitors all repositories and holds jobs or
\* selectors: the decorator raises for such arguments.
C15_MonitorAllExcludesJobs ==
    \A s \in Sensors :
        sensorDef[s].monitor_all_repositories =>
            Len(sensorDef[s].monitored_jobs) = 0

-----------------------------------------------------------------------------
(* C16.                                                                    *)

\* C16: when no run record is found for a fetched record, the tick does not
\* end in an exception and does not call the user function for it: it
\* advances the cursor to the record's id, with the timestamp of the event
\* itself, and goes on to the next record of the batch.
C16_MissingRunIsSkipped ==
    \A s \in Sensors :
        \A i \in Positions(s, "inspect") :
            LET id == trace[s][i].id
            IN  get_run_records(events[id].run_id) = {} =>
                    /\ Len(trace[s]) > i
                    /\ trace[s][i + 1].op = "update_cursor"
                    /\ trace[s][i + 1].id = id
                    /\ trace[s][i + 1].ts = <<"iso", events[id].timestamp>>
                    /\ \A j \in Positions(s, "invoke") : trace[s][j].id # id
                    /\ Len(trace[s]) = i + 1 =>
                          /\ error[s] = ""
                          /\ from_json(cursor[s]) =
                                RunStatusSensorCursor(
                                    id, <<"iso", events[id].timestamp>>)
                          /\ pc[s] = "returned" <=> FetchedAfter(s, id) = <<>>
                    /\ Len(trace[s]) > i + 1 =>
                          /\ FetchedAfter(s, id) # <<>>
                          /\ trace[s][i + 2] = Inspect(FetchedAfter(s, id)[1])

\* A tick has skipped a record whose run is not found and has gone on to
\* evaluate the record after it.
C16_Witness ==
    \E s \in Sensors :
        /\ pc[s] = "returned"
        /\ error[s] = ""
        /\ \E i \in Positions(s, "inspect") :
              /\ events[trace[s][i].id].run_id = "gone"
              /\ Len(trace[s]) >= i + 3
              /\ trace[s][i + 3].op = "invoke"
              /\ CursorId(s) > trace[s][i].id

-----------------------------------------------------------------------------
(* C17.                                                                    *)

\* Whether the stored string is malformed or is the serialized form of
\* something that is not a cursor.
NotACursor(json_str) ==
    \/ json_str.form = "malformed"
    \/ /\ json_str.form = "json"
       /\ json_str.cls \notin {"RunStatusSensorCursor", "PipelineSensorCursor"}

-----------------------------------------------------------------------------
(* C20.                                                                    *)

-----------------------------------------------------------------------------
(* C18.                                                                    *)

\* C18: a tick fetches at most 5 records and visits at most 5, each of them
\* a fetched one, however many records of the monitored type lie after the
\* cursor.
C18_BoundedInspection ==
    \A s \in Sensors :
        /\ Len(fetched[s]) <= 5
        /\ Cardinality(Positions(s, "inspect")) <= 5
        /\ \A i \in Positions(s, "inspect") :
              \E k \in 1..Len(fetched[s]) : fetched[s][k] = trace[s][i].id
        /\ \A i, j \in Positions(s, "inspect") :
              i < j => trace[s][i].id < trace[s][j].id

\* A tick has visited 5 records and returned while a sixth record of the
\* monitored type lies after the cursor.
C18_Witness ==
    \E s \in Sensors :
        /\ pc[s] = "returned"
        /\ Len(fetched[s]) = 5
        /\ Cardinality(Positions(s, "inspect")) = 5
        /\ CursorId(s) = fetched[s][5]
        /\ LatestId(sensorDef[s].event_type) > CursorId(s)

-----------------------------------------------------------------------------
(* C19.                                                                    *)

\* The smaller of two numbers.
Min(a, b) == IF a <= b THEN a ELSE b

\* The number of records of the type s monitors that lie after its cursor.
Remaining(s) ==
    Cardinality({i \in 1..Len(events) :
                    /\ events[i].event_type = sensorDef[s].event_type
                    /\ i > CursorId(s)})

\* Whether the record id is out of the scope of s: its run is not found, has
\* no origin, is of the current repository and not of a listed job, or is of
\* another repository and not named by a selector.
OutOfScope(s, id) ==
    /\ ~sensorDef[s].monitor_all_repositories
    /\ \A r \in runs[events[id].run_id] :
          \/ ~r.has_origin
          \/ /\ OriginatesInCurrentScope(r)
             /\ HasJobList(sensorDef[s])
             /\ ~InJobList(sensorDef[s], r)
          \/ /\ OriginatesInOtherScope(r)
             /\ ~NamedBySelector(sensorDef[s], r)

\* C19: a tick that resumes from a cursor with records after it fetches
\* min(5, remaining) of them; when none of the fetched records matches the
\* scope, the tick visits every one of them and leaves the cursor at the
\* last, so that a cursor K records behind reaches the newest record in
\* ceil(K/5) ticks.
C19_BoundedCatchUp ==
    /\ [][\A s \in Sensors :
            (/\ pc[s] # "scanning"
             /\ is_valid(cursor[s])
             /\ fetched'[s] # fetched[s] \/ pc'[s] = "scanning") =>
                Len(fetched'[s]) = Min(5, Remaining(s))]_vars
    /\ [](\A s \in Sensors :
            (/\ pc[s] \in {"returned", "raised"}
             /\ fetched[s] # <<>>
             /\ \A k \in 1..Len(fetched[s]) : OutOfScope(s, fetched[s][k])) =>
                /\ error[s] = ""
                /\ Cardinality(Positions(s, "inspect")) = Len(fetched[s])
                /\ CursorId(s) = fetched[s][Len(fetched[s])]
                /\ CursorId(s) - from_json(tickStart[s]).record_id
                      >= Len(fetched[s]))

-----------------------------------------------------------------------------
(* Direct invocation.                                                       *)

\* The number of arguments of the last direct invocation of s.
Supplied(s) == Len(direct[s].args) + Len(direct[s].kwargs)

\* Whether the last direct invocation of s supplied a number of arguments
\* other than the number of parameters of the function the definition
\* holds (for a failure sensor, the one-parameter function that wraps the
\* decorated one).
ArityMismatch(s) ==
    /\ direct[s].made
    /\ \/ sensorDef[s].fn_params = 1 /\ Supplied(s) # 1
       \/ sensorDef[s].fn_params = 0 /\ Supplied(s) > 0

C22_DirectInvocationBypassesTick ==
    [][\A s \in Sensors :
          direct'[s] # direct[s] =>
              /\ UNCHANGED <<events, runs, sensorDef, cursor, pc, fetched,
                             batch, tickStart, trace, evaluated, boot,
                             raised, error>>
              /\ direct'[s].outcome.exc = "" =>
                    /\ direct'[s].outcome.calls = 1
                    /\ direct'[s].outcome.returned = direct'[s].fn_result]_vars

C22_Witness ==
    \E s \in Sensors :
        /\ direct[s].made
        /\ direct[s].outcome.exc = ""
        /\ direct[s].outcome.calls = 1
        /\ direct[s].fn_result.ret = "none"
        /\ direct[s].outcome.returned.ret = "none"
        /\ pc[s] = "scanning"

-----------------------------------------------------------------------------
(* C23.                                                                    *)

\* The error reactions the tick of s has emitted for the record id.
ErrorReactionsFor(s, id) ==
    {j \in Positions(s, "yield") :
        /\ trace[s][j].id = id
        /\ trace[s][j].out.kind = "PipelineRunReaction"
        /\ trace[s][j].out.error # NoError}

\* C23: in a tick, for a record that matches, the user function runs
\* whether it declares one context parameter or none, and an error reaction
\* is emitted for the record only when the function itself raised.
C23_ZeroParameterFunctionRuns ==
    \A s \in Sensors : \A i \in Positions(s, "inspect") :
        Matches(s, trace[s][i].id) =>
            /\ i < Len(trace[s])
            /\ trace[s][i + 1].op = "invoke"
            /\ trace[s][i + 1].id = trace[s][i].id
            /\ trace[s][i + 1].res.ret # "raise" =>
                    ErrorReactionsFor(s, trace[s][i].id) = {}

-----------------------------------------------------------------------------
(* C24.                                                                    *)

\* The positions of the calls of context.update_cursor that precede
\* position j in the trace of s.
UpdatesBefore(s, j) == {i \in Positions(s, "update_cursor") : i < j}

\* The outputs of the event decisions of s: the outputs of a tick that
\* began with a valid cursor.
DecisionOutputs(s) ==
    IF is_valid(tickStart[s]) THEN Positions(s, "yield") ELSE {}

-----------------------------------------------------------------------------
(* C25.                                                                    *)

\* The calls of context.update_cursor the tick of s has made for the
\* record id.
UpdatesFor(s, id) ==
    {j \in Positions(s, "update_cursor") : trace[s][j].id = id}

\* Whether the tick of s ended in CheckError on the record inspected at
\* position i of its trace.
CheckErrorAt(s, i) ==
    /\ pc[s] = "raised"
    /\ error[s] = "CheckError"
    /\ i = Len(trace[s])

\* Whether the user function, called for the record id, returned a
\* generator that raised after its outputs.
RaisedAfterOutputs(s, id) ==
    \E j \in Positions(s, "invoke") :
        trace[s][j].id = id /\ trace[s][j].res.ret = "gen_raise"

\* C25 as stated: a tick that began with a valid cursor and returned has
\* called context.update_cursor exactly once.
C25_OneCursorMutationPerTick ==
    \A s \in Sensors :
        (pc[s] = "returned" /\ is_valid(tickStart[s])) =>
            Len(Updates(s)) = 1

\* C25: a tick that began with a valid cursor calls context.update_cursor
\* only for records it has inspected, once for every inspected record that
\* it skips or evaluates (twice when the user function raises after its
\* outputs, not at all for the record the tick fails on with CheckError):
\* as many times as the batch has decided records, zero for an empty batch.
C25_OneCursorMutationPerDecision ==
    \A s \in Sensors :
        is_valid(tickStart[s]) =>
            /\ \A j \in Positions(s, "update_cursor") :
                  \E i \in Positions(s, "inspect") :
                      i < j /\ trace[s][i].id = trace[s][j].id
            /\ \A i \in Positions(s, "inspect") :
                  Cardinality(UpdatesFor(s, trace[s][i].id)) =
                      IF CheckErrorAt(s, i) THEN 0
                      ELSE IF RaisedAfterOutputs(s, trace[s][i].id) THEN 2
                      ELSE 1

\* A tick that began with a valid cursor has returned after three calls of
\* context.update_cursor, for three records.
C25_Witness ==
    \E s \in Sensors :
        /\ pc[s] = "returned"
        /\ is_valid(tickStart[s])
        /\ Len(Updates(s)) = 3
        /\ Cardinality(Positions(s, "inspect")) = 3

-----------------------------------------------------------------------------
(* C26.                                                                    *)

\* C26: no record blocks a sensor: a tick that began with a valid cursor
\* and fetched records after it ends with the cursor beyond the record it
\* began at, whatever the first fetched record is (one whose run is
\* missing, whose run has no origin, that does not match, or whose
\* evaluation raises), so that repeated ticks reach every record.
C26_EveryTickAdvances ==
    \A s \in Sensors :
        (/\ pc[s] \in {"returned", "raised"}
         /\ is_valid(tickStart[s])
         /\ fetched[s] # <<>>) =>
            CursorId(s) > from_json(tickStart[s]).record_id

-----------------------------------------------------------------------------
(* C27.                                                                    *)

\* What the ticks of s have made of s: its cursor and the state of its
\* generator.
TickState(s) ==
    <<cursor[s], pc[s], fetched[s], batch[s], tickStart[s], trace[s],
      evaluated[s], boot[s], raised[s], error[s]>>

\* The ids of the records of the type s monitors after the record id,
\* ascending.
OwnRecordsAfter(s, id) ==
    Ascending({i \in 1..Len(events) :
                  i > id /\ events[i].event_type = sensorDef[s].event_type},
              <<>>)

\* Whether the sequence a is a prefix of the sequence b.
IsPrefix(a, b) == Len(a) <= Len(b) /\ a = SubSeq(b, 1, Len(a))

\* C27: with two sensors ticking over the same log in any interleaving, a
\* step of a tick of one sensor changes neither the cursor nor the tick of
\* the other, nor the log; a tick begins from its own sensor's cursor; and
\* what a tick fetches, visits and emits is determined by its own cursor
\* and the log: the records of its own type after its own cursor, in
\* order, and outputs for these records only.
C27_SensorsAreIndependent ==
    /\ [][/\ \A s, t \in Sensors :
                (s # t /\ TickState(s)' # TickState(s)) =>
                    /\ TickState(t)' = TickState(t)
                    /\ UNCHANGED <<events, runs, sensorDef>>
          /\ \A s \in Sensors :
                tickStart'[s] # tickStart[s] => tickStart'[s] = cursor[s]]_vars
    /\ [](\A s \in Sensors :
            is_valid(tickStart[s]) =>
                /\ IsPrefix(fetched[s],
                            OwnRecordsAfter(s, from_json(tickStart[s]).record_id))
                /\ \A i \in 1..Len(trace[s]) :
                      \E k \in 1..Len(fetched[s]) :
                          trace[s][i].id = fetched[s][k]
                /\ CursorId(s) =
                      IF Updates(s) = <<>>
                      THEN from_json(tickStart[s]).record_id
                      ELSE Updates(s)[Len(Updates(s))])

\* The two sensors have each called their user function, in ticks that
\* overlap, and their cursors differ.
C27_Witness ==
    /\ Positions("s1", "invoke") # {}
    /\ Positions("s2", "invoke") # {}
    /\ is_valid(tickStart["s1"])
    /\ is_valid(tickStart["s2"])
    /\ CursorId("s1") # CursorId("s2")
    /\ pc["s1"] = "scanning"

-----------------------------------------------------------------------------
(* C28.                                                                    *)

\* Whether the record id is a failure event.
IsFailureEvent(id) ==
    id \in 1..Len(events) /\ events[id].event_type = "PIPELINE_FAILURE"

\* C28: a sensor made by run_failure_sensor is a run status sensor of the
\* FAILURE status: its bootstrap sets the cursor to the latest failure
\* event, its ticks fetch, visit, move the cursor over and emit for failure
\* events only, the user function is called for failure events only, and
\* the context the user function receives is a RunFailureSensorContext of
\* the same sensor name, run and event.
C28_RunFailureSensorIsFailureStatusSensor ==
    \A s \in Sensors :
        sensorDef[s].fn_kind = "_run_failure_sensor" =>
            /\ sensorDef[s].run_status = FAILURE
            /\ sensorDef[s].event_type = "PIPELINE_FAILURE"
            /\ (boot[s] # <<>> /\ boot[s][1] # NoEventId) =>
                    IsFailureEvent(boot[s][1])
            /\ \A k \in 1..Len(fetched[s]) : IsFailureEvent(fetched[s][k])
            /\ \A i \in 1..Len(trace[s]) :
                  /\ trace[s][i].id # NoEventId => IsFailureEvent(trace[s][i].id)
                  /\ trace[s][i].op = "invoke" =>
                        trace[s][i].ctx =
                            [cls |-> "RunFailureSensorContext",
                             sensor_name |-> sensorDef[s].name,
                             dagster_run |-> events[trace[s][i].id].run_id,
                             dagster_event |-> trace[s][i].id]

\* A failure sensor has been ticked over a log whose first record is a
\* success event and has called its user function for the failure event
\* after it.
C28_Witness ==
    \E s \in Sensors :
        /\ sensorDef[s].fn_kind = "_run_failure_sensor"
        /\ Len(events) = 2
        /\ events[1].event_type = "PIPELINE_SUCCESS"
        /\ \E i \in Positions(s, "invoke") :
              /\ trace[s][i].id = 2
              /\ trace[s][i].ctx.cls = "RunFailureSensorContext"

-----------------------------------------------------------------------------
(* C29.                                                                    *)

\* Whether the call at position i of the trace of s returned an empty
\* sequence of outputs (an empty list, or a generator that yields nothing
\* and ends).
ReturnedEmptySequence(s, i) ==
    /\ trace[s][i].op = "invoke"
    /\ trace[s][i].res.ret = "list"
    /\ trace[s][i].res.outs = <<>>

\* C29 as stated: when the call for a matched record returns an empty
\* sequence of outputs, the tick emits a single synthesized reaction for
\* the record's run with no error.
C29_EmptySequenceSynthesizesReaction ==
    \A s \in Sensors :
        \A i \in Positions(s, "invoke") :
            ReturnedEmptySequence(s, i) =>
                YieldsFor(s, trace[s][i].id) =
                    <<ReactionFor(trace[s][i].id, NoError)>>

\* C29: when the call for a matched record returns an empty sequence of
\* outputs, the tick advances the cursor to the record, emits nothing for
\* it and returns; the synthesized reaction with no error is emitted only
\* when the call returns None.
C29_EmptySequenceEmitsNothing ==
    \A s \in Sensors :
        \A i \in Positions(s, "invoke") :
            LET id == trace[s][i].id
            IN  /\ ReturnedEmptySequence(s, i) =>
                    /\ Len(trace[s]) = i + 1
                    /\ trace[s][i + 1] = UpdateFor(id)
                    /\ YieldsFor(s, id) = <<>>
                    /\ CursorId(s) = id
                    /\ pc[s] = "returned"
                /\ (\E j \in Positions(s, "yield") :
                        trace[s][j] = ReactionFor(id, NoError)) =>
                            trace[s][i].res.ret = "none"

\* The call returned an empty sequence for the first of two fetched
\* records: the tick has returned with nothing emitted and the second
\* record not visited.
C29_Witness ==
    \E s \in Sensors :
        /\ pc[s] = "returned"
        /\ Len(fetched[s]) = 2
        /\ Emitted(s) = <<>>
        /\ \E i \in Positions(s, "invoke") :
              /\ ReturnedEmptySequence(s, i)
              /\ trace[s][i].id = fetched[s][1]
              /\ CursorId(s) = fetched[s][1]

-----------------------------------------------------------------------------
(* C30.                                                                    *)

\* Whether the tick of s has gone through its whole batch without a record
\* that matches.
ExhaustedWithoutMatch(s) ==
    /\ pc[s] = "returned"
    /\ is_valid(tickStart[s])
    /\ fetched[s] # <<>>
    /\ \A k \in 1..Len(fetched[s]) : ~Matches(s, fetched[s][k])

\* C30: a tick that goes through its batch without a matching record emits
\* no output, never calls the user function, visits every record of the
\* batch and leaves the cursor at the id of the last one.
C30_NoMatchOnlyAdvancesCursor ==
    \A s \in Sensors :
        ExhaustedWithoutMatch(s) =>
            /\ Emitted(s) = <<>>
            /\ Positions(s, "invoke") = {}
            /\ {trace[s][i].id : i \in Positions(s, "inspect")} =
                  {fetched[s][k] : k \in 1..Len(fetched[s])}
            /\ CursorId(s) = fetched[s][Len(fetched[s])]

\* A tick has gone through a batch of a record whose run is missing and a
\* record of a run out of scope.
C30_Witness ==
    \E s \in Sensors :
        /\ ExhaustedWithoutMatch(s)
        /\ Len(fetched[s]) >= 2
        /\ \E k \in 1..Len(fetched[s]) : runs[events[fetched[s][k]].run_id] = {}
        /\ \E k \in 1..Len(fetched[s]) : runs[events[fetched[s][k]].run_id] # {}
        /\ CursorId(s) = fetched[s][Len(fetched[s])]

-----------------------------------------------------------------------------
(* C31.                                                                    *)

\* The records on which the user function failed in the tick of s: it
\* raised, or returned a generator that raised.
FailedIn(s) ==
    {trace[s][i].id : i \in {j \in Positions(s, "invoke") :
                                trace[s][j].res.ret \in {"raise", "gen_raise"}}}

\* C31: a record on which the user function failed is behind the cursor:
\* the tick has moved the cursor to it or beyond it, no record still to
\* visit in the tick is at or before it, the next tick fetches only records
\* after it, and over all ticks no record is handed to the user function
\* twice.
C31_FailedEventIsNotEvaluatedAgain ==
    /\ [](\A s \in Sensors :
            /\ \A id \in FailedIn(s) :
                  /\ CursorId(s) >= id
                  /\ \A k \in 1..Len(batch[s]) : batch[s][k] > id
            /\ \A a, b \in 1..Len(evaluated[s]) :
                  a < b => evaluated[s][a] < evaluated[s][b])
    /\ [][\A s \in Sensors :
            (pc[s] \in {"returned", "raised"} /\ pc'[s] = "scanning") =>
                \A id \in FailedIn(s) :
                    \A k \in 1..Len(fetched'[s]) : fetched'[s][k] > id]_vars

\* The user function failed on the first of two fetched records; the tick
\* moved the cursor past it and evaluated the second, and has returned.
C31_Witness ==
    \E s \in Sensors :
        /\ pc[s] = "returned"
        /\ Len(fetched[s]) = 2
        /\ FailedIn(s) = {fetched[s][1]}
        /\ \E i \in Positions(s, "invoke") : trace[s][i].id = fetched[s][2]
        /\ evaluated[s] = <<fetched[s][1], fetched[s][2]>>
        /\ CursorId(s) = fetched[s][2]

-----------------------------------------------------------------------------
(* C32.                                                                    *)

\* Whether the run originates in a repository of the name of the sensor's
\* repository, in another location.
OriginatesInTwinRepository(r) ==
    /\ r.has_origin
    /\ r.repository_name = ContextRepositoryName
    /\ r.location_name # ContextLocationName

\* C32: a record of a run that originates in a repository of the same name
\* in another location is not of the current scope: for a sensor that is
\* not monitor-all it is handed to the user function if and only if one of
\* the sensor's selectors names the run.
C32_SameNameOtherLocationIsOtherScope ==
    \A s \in Sensors :
        ~sensorDef[s].monitor_all_repositories =>
            \A i \in Visits(s) :
                OriginatesInTwinRepository(RunAt(s, i)) =>
                    (EvaluatedAt(s, i) <=>
                        NamedBySelector(sensorDef[s], RunAt(s, i)))

-----------------------------------------------------------------------------
(* C33.                                                                    *)

\* A run record without its update time.
Untimed(r) == [r EXCEPT !.update_timestamp = <<"utc", 0>>]

\* What the loop decides for the record id, from the ids, the run's origin
\* and the sensor's scope alone: "missing", "match", "no_match" or
\* "CheckError".
UntimedDecision(s, id) ==
    IF runs[events[id].run_id] = {} THEN "missing"
    ELSE job_match(sensorDef[s],
                   Untimed(CHOOSE r \in runs[events[id].run_id] : TRUE),
                   ContextRepositoryName)

\* The records of the type s monitors after the record id, ascending, at
\* most five of them.
UntimedFetch(s, id) ==
    InOrder({i \in 1..Len(events) :
                i > id /\ events[i].event_type = sensorDef[s].event_type},
            TRUE, BatchLimit)

-----------------------------------------------------------------------------
(* C34.                                                                    *)

\* C34: a step of a tick (the bootstrap, the fetch, a pass of the loop,
\* whatever it ends in) and a direct invocation leave the event log and the
\* run storage unchanged.
C34_StoresAreReadOnly ==
    [][(\E s \in Sensors :
            TickState(s)' # TickState(s) \/ direct'[s] # direct[s]) =>
                UNCHANGED <<events, runs>>]_vars

\* Over a log of two records a sensor has bootstrapped, has evaluated a
\* record in a later tick and has been invoked directly.
C34_Witness ==
    \E s \in Sensors :
        /\ Len(events) = 2
        /\ tickStart[s].form = "json"
        /\ boot[s] = <<1>>
        /\ evaluated[s] = <<2>>
        /\ direct[s].made
        /\ runs = RunTable

-----------------------------------------------------------------------------
(* C35.                                                                    *)

\* Whether the last direct invocation of s passed its one argument by
\* keyword under a name other than the first parameter's.
WrongKeyword(s) ==
    /\ Len(direct[s].args) = 0
    /\ Len(direct[s].kwargs) = 1
    /\ direct[s].kwargs[1][1] # ContextParamName

\* Whether the last direct invocation of s passed None as its one argument,
\* by position or under the first parameter's name.
ContextIsNone(s) ==
    \/ /\ Len(direct[s].args) = 1
       /\ Len(direct[s].kwargs) = 0
       /\ direct[s].args[1] = NoContext
    \/ /\ Len(direct[s].args) = 0
       /\ Len(direct[s].kwargs) = 1
       /\ direct[s].kwargs[1] = <<ContextParamName, NoContext>>

\* C35: a direct invocation of a sensor whose function has a context
\* parameter raises DagsterInvalidInvocationError without calling the
\* function when its one argument is passed by keyword under another name
\* than the first parameter's, or when the context passed is None.
C35_WrongKeywordOrNoneIsInvalidInvocation ==
    \A s \in Sensors :
        (/\ direct[s].made
         /\ sensorDef[s].fn_params = 1
         /\ WrongKeyword(s) \/ ContextIsNone(s)) =>
            /\ direct[s].outcome.exc = "DagsterInvalidInvocationError"
            /\ direct[s].outcome.calls = 0

\* None has been passed as the context, under the name of the first
\* parameter.
C35_Witness ==
    \E s \in Sensors :
        /\ direct[s].made
        /\ sensorDef[s].fn_params = 1
        /\ ContextIsNone(s)
        /\ Len(direct[s].kwargs) = 1
        /\ direct[s].outcome.exc = "DagsterInvalidInvocationError"
        /\ direct[s].outcome.calls = 0

\* A context has been passed under another name than the first parameter's.
C35_WitnessKeyword ==
    \E s \in Sensors :
        /\ direct[s].made
        /\ sensorDef[s].fn_params = 1
        /\ WrongKeyword(s)
        /\ direct[s].kwargs[1][2] = BuiltContext
        /\ direct[s].outcome.exc = "DagsterInvalidInvocationError"

-----------------------------------------------------------------------------
(* C36.                                                                    *)

\* The record visited last in the tick of s.
LastInspected(s) ==
    LET last == CHOOSE i \in Positions(s, "inspect") :
                    \A j \in Positions(s, "inspect") : j <= i
    IN  trace[s][last].id

\* C36: the record id of a sensor's cursor is -1 or the id of a record of
\* the monitored type that is in the log, it is never beyond the newest
\* such record, and after a tick that visited at least one record it is the
\* id of the record visited last.
C36_CursorIsLastInspectedRecord ==
    \A s \in Sensors :
        is_valid(cursor[s]) =>
            /\ \/ CursorId(s) = NoEventId
               \/ /\ CursorId(s) \in 1..Len(events)
                  /\ events[CursorId(s)].event_type = sensorDef[s].event_type
            /\ CursorId(s) <= LatestId(sensorDef[s].event_type)
            /\ (/\ pc[s] \in {"returned", "raised"}
                /\ Positions(s, "inspect") # {}) =>
                    CursorId(s) = LastInspected(s)

-----------------------------------------------------------------------------
(* C37.                                                                    *)

\* Whether the last tick of s was a tick that fetched nothing.
AfterEmptyTick(s) ==
    /\ pc[s] = "returned"
    /\ is_valid(tickStart[s])
    /\ tickStart[s] = cursor[s]
    /\ fetched[s] = <<>>
    /\ batch[s] = <<>>
    /\ trace[s] = <<>>
    /\ error[s] = ""

\* C37: when the log holds no record of the monitored type after the
\* cursor, a tick fetches nothing, leaves the cursor as it is, emits
\* nothing and does not call the user function; after one such tick,
\* further such ticks change nothing of the sensor's state.
C37_EmptyFetchChangesNothing ==
    [][\A s \in Sensors :
          (/\ pc[s] # "scanning"
           /\ is_valid(cursor[s])
           /\ Remaining(s) = 0) =>
              /\ cursor'[s] = cursor[s]
              /\ evaluated'[s] = evaluated[s]
              /\ TickState(s)' # TickState(s) =>
                    /\ fetched'[s] = <<>>
                    /\ trace'[s] = <<>>
                    /\ pc'[s] = "returned"
                    /\ error'[s] = ""
                    /\ raised'[s] = raised[s]
              /\ AfterEmptyTick(s) => TickState(s)' = TickState(s)]_vars

\* A sensor that has evaluated a record has then ticked with nothing of
\* its type after the cursor, the log ending in a record of another type.
C37_Witness ==
    \E s \in Sensors :
        /\ AfterEmptyTick(s)
        /\ evaluated[s] # <<>>
        /\ CursorId(s) >= 1
        /\ Len(events) > CursorId(s)
        /\ Remaining(s) = 0

-----------------------------------------------------------------------------
(* C38.                                                                    *)

\* The reactions the tick of s has emitted.
Reactions(s) ==
    {j \in Positions(s, "yield") : trace[s][j].out.kind = "PipelineRunReaction"}

\* C38: within a tick the user function is called for fetched records
\* that match the scope only, in ascending order of record id and so at
\* most once per record, and neither the number of calls nor the number of
\* reactions emitted exceeds the batch size of 5.
C38_AtMostBatchSizeInvocations ==
    \A s \in Sensors :
        /\ \A i \in Positions(s, "invoke") :
              /\ \E k \in 1..Len(fetched[s]) : fetched[s][k] = trace[s][i].id
              /\ Matches(s, trace[s][i].id)
              /\ \A j \in Positions(s, "invoke") :
                    i < j => trace[s][i].id < trace[s][j].id
        /\ Cardinality(Positions(s, "invoke")) <= 5
        /\ Cardinality(Reactions(s)) <= 5

\* With six matching records after the cursor, a tick has called the user
\* function five times and emitted five reactions, and has returned.
C38_Witness ==
    \E s \in Sensors :
        /\ pc[s] = "returned"
        /\ Len(events) = 6
        /\ \A i \in 1..6 : Matches(s, i)
        /\ from_json(tickStart[s]).record_id = NoEventId
        /\ Cardinality(Positions(s, "invoke")) = 5
        /\ Cardinality(Reactions(s)) = 5

-----------------------------------------------------------------------------
(* C39.                                                                    *)

\* The exceptions of decoding a stored cursor.
DecodeErrors == {"JSONDecodeError", "DeserializationError"}

\* C39: the validity check lets through exactly the stored cursors that
\* from_json decodes, so that no tick ends in an exception of decoding: a
\* tick that starts with a cursor from_json decodes takes the resume path
\* from the record id decoded, and a tick that starts with any other cursor
\* takes the bootstrap.
C39_ValidCursorAlwaysDecodes ==
    /\ [](\A s \in Sensors : error[s] \notin DecodeErrors)
    /\ [][\A s \in Sensors :
            (pc[s] # "scanning" /\ TickState(s)' # TickState(s)) =>
                /\ pc'[s] # "raised"
                /\ deserialize_value(cursor[s]).exc = "" =>
                      /\ cursor'[s] = cursor[s]
                      /\ from_json(tickStart'[s]).record_id = cursor[s].record_id
                /\ deserialize_value(cursor[s]).exc # "" =>
                      /\ Len(trace'[s]) = 2
                      /\ trace'[s][2].out.kind = "SkipReason"]_vars

\* A tick has taken the resume path from a cursor stored under the legacy
\* class name and has fetched records after it.
C39_Witness ==
    \E s \in Sensors :
        /\ tickStart[s].form = "json"
        /\ tickStart[s].cls = "PipelineSensorCursor"
        /\ is_valid(tickStart[s])
        /\ fetched[s] # <<>>
        /\ pc[s] = "returned"
        /\ error[s] = ""

-----------------------------------------------------------------------------
(* C40.                                                                    *)

\* The jobs that determine the scope of a declaration: monitored_jobs, or
\* job_selection when monitored_jobs is empty.
EffectiveJobs(d) == IF Len(d[1]) > 0 THEN d[1] ELSE d[2]

\* Whether the entry x of a declaration names the run r: a job of the
\* current repository by its name, a job selector by location, repository
\* and job, a repository selector by location and repository, and a code
\* location selector as the repository "__repository__" of its location.
EntryNames(x, r) ==
    CASE x.sel = "JobDefinition" ->
            OriginatesInCurrentScope(r) /\ x.job_name = r.pipeline_name
      [] x.sel = "JobSelector" ->
            /\ x.location_name = r.location_name
            /\ x.repository_name = r.repository_name
            /\ x.job_name = r.pipeline_name
      [] x.sel = "RepositorySelector" ->
            /\ x.location_name = r.location_name
            /\ x.repository_name = r.repository_name
      [] OTHER ->
            /\ x.location_name = r.location_name
            /\ r.repository_name = "__repository__"

\* Whether the run r is in the scope of the declaration d.
InDeclaredScope(d, r) ==
    IF EffectiveJobs(d) = <<>> THEN OriginatesInCurrentScope(r)
    ELSE \E k \in 1..Len(EffectiveJobs(d)) : EntryNames(EffectiveJobs(d)[k], r)

\* C40: a sensor declared with a code location selector holds, in its
\* place, the repository selector of that location and of the repository
\* "__repository__", and its ticks evaluate the runs of that repository;
\* job_selection determines the scope only of a declaration whose
\* monitored_jobs is empty: a visited record is handed to the user function
\* if and only if its run is in the scope of monitored_jobs, or of
\* job_selection when monitored_jobs is empty.
C40_DeclaredScope ==
    \A s \in Sensors : \A d \in DeclDeclarations :
        sensorDef[s] \in MadeFrom(d) =>
            /\ Len(sensorDef[s].monitored_jobs) = Len(EffectiveJobs(d))
            /\ \A k \in 1..Len(EffectiveJobs(d)) :
                  sensorDef[s].monitored_jobs[k] =
                      IF EffectiveJobs(d)[k].sel = "CodeLocationSelector"
                      THEN RepositorySelector(EffectiveJobs(d)[k].location_name,
                                              "__repository__")
                      ELSE EffectiveJobs(d)[k]
            /\ \A i \in Visits(s) :
                  EvaluatedAt(s, i) <=> InDeclaredScope(d, RunAt(s, i))

\* A sensor declared with a code location selector has evaluated a run of
\* the repository "__repository__" of that location and skipped a run of
\* another repository of the location.
C40_Witness ==
    \E s \in Sensors :
        /\ sensorDef[s] \in MadeFrom(<<<<CodeLocationSelector("loc2")>>, <<>>>>)
        /\ \E i, j \in Visits(s) :
              /\ events[trace[s][i].id].run_id = "loc_a"
              /\ EvaluatedAt(s, i)
              /\ events[trace[s][j].id].run_id = "ext_a"
              /\ SkippedAt(s, j)

\* A sensor declared with monitored_jobs job_b and job_selection job_a has
\* skipped a run of job_a and evaluated a run of job_b.
C40_WitnessBothGiven ==
    \E s \in Sensors :
        /\ sensorDef[s] \in
              MadeFrom(<<<<JobDefinition("job_b")>>, <<JobDefinition("job_a")>>>>)
        /\ \E i, j \in Visits(s) :
              /\ events[trace[s][i].id].run_id = "cur_a"
              /\ SkippedAt(s, i)
              /\ events[trace[s][j].id].run_id = "cur_b"
              /\ EvaluatedAt(s, j)

=============================================================================
